---- MODULE Spec2Model ----
(***************************************************************************)
(* Model of sheet-up: the workspace store (state/workspaceStore.ts), the   *)
(* book and sheet factories (lib/workspace/bookFactory.ts, sheetFactory.ts)*)
(* the integrity engine (lib/workspace/integrity.ts), the grid component   *)
(* (components/SheetGrid.tsx) and the saving of the application (App.tsx). *)
(*                                                                         *)
(* Conventions                                                             *)
(*  - null / undefined ids are the string Null.                            *)
(*  - a null snapshot is the record NullSnapshot.                          *)
(*  - ISO timestamps are integers; an operation that reads the clock gets  *)
(*    the value `now` and the clock then advances.                         *)
(*  - a path is a sequence of tokens; the separators "/" and "\\" are      *)
(*    tokens of their own, so normalisation and suffix matching are        *)
(*    computed, not assumed.                                               *)
(*  - a numeric cell value is held as its canonical decimal string, the    *)
(*    type tag tells it from the string cell with the same characters.     *)
(*  - cloneSnapshot (structuredClone) is a deep copy: on immutable values  *)
(*    it is the value itself.                                              *)
(***************************************************************************)
EXTENDS Integers, Sequences, FiniteSets, TLC

VARIABLES
  snapshot,         \* WorkspaceStoreState.snapshot
  selectedBookId,   \* WorkspaceStoreState.selectedBookId
  selectedSheetId,  \* WorkspaceStoreState.selectedSheetId
  history,          \* WorkspaceStoreState.history
  future,           \* WorkspaceStoreState.future
  clock,            \* wall clock read by new Date().toISOString()
  uid,              \* source of the fresh suffixes generateId draws
  lastCall,         \* the store call made last and what it returned
  integ,            \* integrity engine run: input snapshot, issues, decisions, result
  grid,             \* SheetGrid: the sheet it was given and what it renders
  app               \* App.tsx: autosave setting, pending timer, saves issued

storeVars == <<snapshot, selectedBookId, selectedSheetId, history, future>>
vars == <<snapshot, selectedBookId, selectedSheetId, history, future,
          clock, uid, lastCall, integ, grid, app>>

Null == "null"
NullSnapshot == [isNull |-> TRUE]

----------------------------------------------------------------------------
(* Program constants *)

MAX_HISTORY_ENTRIES == 100
RECENT_LIMIT == 20
DEFAULT_ROWS == 100
DEFAULT_COLS == 26

(* Bounds of the model *)

MaxClock == 1        \* effective mutations explored by Spec
MaxBatch == 2        \* updates in one applyCellUpdates batch
MaxEditOps == 3      \* effective mutations explored by SpecEdit
MaxHistOps == 150    \* effective mutations explored by SpecHist
MaxHistUndo == 2     \* depth of the redo stack explored by SpecHist

----------------------------------------------------------------------------
(* Sequence helpers (Array.prototype) *)

Last(s) == s[Len(s)]
Front(s) == SubSeq(s, 1, Len(s) - 1)
SeqToSet(s) == {s[i] : i \in 1..Len(s)}
Min2(a, b) == IF a < b THEN a ELSE b

\* Array.prototype.slice(from) with a 0-based start
SliceFrom(s, from) == SubSeq(s, from + 1, Len(s))
\* Array.prototype.slice(0, n)
SliceTo(s, n) == SubSeq(s, 1, Min2(n, Len(s)))

\* Array.prototype.filter((id) => id !== x)
RECURSIVE FilterOut(_, _)
FilterOut(s, x) ==
  IF s = <<>> THEN <<>>
  ELSE IF Head(s) = x THEN FilterOut(Tail(s), x)
       ELSE <<Head(s)>> \o FilterOut(Tail(s), x)

\* Array.prototype.findIndex, 1-based; 0 stands for -1
RECURSIVE FindIndexFrom(_, _, _)
FindIndexFrom(s, P(_), i) ==
  IF i > Len(s) THEN 0
  ELSE IF P(s[i]) THEN i ELSE FindIndexFrom(s, P, i + 1)
FindIndex(s, P(_)) == FindIndexFrom(s, P, 1)

\* object spread with one key set / the delete operator, on sparse maps
MapSet(f, k, v) == [x \in (DOMAIN f) \cup {k} |-> IF x = k THEN v ELSE f[x]]
MapDelete(f, k) == [x \in (DOMAIN f) \ {k} |-> f[x]]
EmptyMap == [x \in {} |-> Null]

----------------------------------------------------------------------------
(* Strings: String.prototype.trim and Number(), tabulated over the raw     *)
(* inputs the model feeds to the store.                                     *)

Trim(s) ==
  CASE s = " " -> ""
    [] s = " 5" -> "5"
    [] s = " Renamed" -> "Renamed"
    [] OTHER -> s

\* Number(trimmed) for a trimmed, non-empty string: the canonical decimal
\* string of the number, or "NaN"
NumberOf(trimmed) ==
  CASE trimmed = "5" -> "5"
    [] trimmed = "100" -> "100"
    [] OTHER -> "NaN"

----------------------------------------------------------------------------
(* Paths: bookFactory.ts *)

BOOKS_DIR == "books"

hasBackslash(path) == \E i \in 1..Len(path) : path[i] = "\\"

normalizePathSeparators(path) ==
  [i \in 1..Len(path) |-> IF path[i] = "\\" THEN "/" ELSE path[i]]

toSystemSeparator(path, useBackslash) ==
  IF useBackslash
  THEN [i \in 1..Len(path) |-> IF path[i] = "/" THEN "\\" ELSE path[i]]
  ELSE path

\* index of the last "/" token, 0 if there is none
LastSlash(path) ==
  IF \E i \in 1..Len(path) : path[i] = "/"
  THEN CHOOSE i \in 1..Len(path) :
         /\ path[i] = "/"
         /\ \A j \in (i + 1)..Len(path) : path[j] # "/"
  ELSE 0

\* split('/'), pop(), join('/')
getWorkspaceDir(workspaceFilePath) ==
  LET normalizedPath == normalizePathSeparators(workspaceFilePath)
      cut == LastSlash(normalizedPath)
  IN [normalized |-> IF cut = 0 THEN <<>> ELSE SubSeq(normalizedPath, 1, cut - 1),
      useBackslash |-> hasBackslash(workspaceFilePath)]

\* replace(/\/+/, '/'): the first run of slashes becomes one slash
RECURSIVE DropLeadingSlashes(_)
DropLeadingSlashes(path) ==
  IF path # <<>> /\ Head(path) = "/" THEN DropLeadingSlashes(Tail(path)) ELSE path

CollapseFirstSlashRun(path) ==
  IF \E i \in 1..Len(path) : path[i] = "/"
  THEN LET first == CHOOSE i \in 1..Len(path) :
                      path[i] = "/" /\ \A j \in 1..(i - 1) : path[j] # "/"
       IN SubSeq(path, 1, first) \o DropLeadingSlashes(SubSeq(path, first + 1, Len(path)))
  ELSE path

joinWorkspacePath(workspaceDir, relative) ==
  LET n == normalizePathSeparators(relative)
      normalizedRelative == IF n # <<>> /\ Head(n) = "/" THEN Tail(n) ELSE n
      combined == CollapseFirstSlashRun(workspaceDir.normalized \o <<"/">> \o normalizedRelative)
  IN toSystemSeparator(combined, workspaceDir.useBackslash)

\* generateId: the prefix and a suffix no earlier call returned
generateId(prefix, n) == prefix \o "-" \o ToString(n)

----------------------------------------------------------------------------
(* Sample data: samples/sampleData.ts, workspaceStore.ts sampleSnapshot *)

sampleWorkspace ==
  [workspace |-> [updatedAt |-> 0,
                  settings |-> [recentBookIds |-> <<"book-001">>,
                                recentSheetIds |-> <<"sheet-001">>]],
   folders |-> <<[id |-> "root"], [id |-> "folder-2025"]>>,
   books |-> <<[id |-> "book-001", name |-> "book-001.json", folderId |-> "root",
                order |-> 0, dataPath |-> <<"books", "/", "book-001.json">>,
                activeSheetId |-> "sheet-001", updatedAt |-> 0]>>]

sampleBook ==
  [book |-> [id |-> "book-001", name |-> "Project", updatedAt |-> 0],
   sheets |-> <<[id |-> "sheet-001", name |-> "Dashboard",
                 gridSize |-> [rows |-> 100, cols |-> 26],
                 rows |-> [r \in {"1", "2"} |->
                   IF r = "1"
                   THEN [c \in {"A", "C"} |->
                          [value |-> IF c = "A" THEN "sales" ELSE "cost", type |-> "string"]]
                   ELSE [c \in {"A", "C"} |->
                          [value |-> IF c = "A" THEN "100" ELSE "30", type |-> "number",
                           format |-> "currency"]]]]>>]

sampleSnapshot ==
  [workspace |-> [filePath |-> <<"sample", "/", "workspace.json">>, data |-> sampleWorkspace],
   books |-> <<[filePath |-> <<"sample", "/", "books", "/", "book-001.json">>,
                data |-> sampleBook]>>]

----------------------------------------------------------------------------
(* Store: state/workspaceStore.ts.  Every operation is a function of the   *)
(* store state st = [snapshot, selectedBookId, selectedSheetId, history,   *)
(* future]; it yields the next store state and what the call returned:     *)
(* "ok" (a snapshot or void), "null", or "error" (an exception thrown).    *)

Store ==
  [snapshot |-> snapshot, selectedBookId |-> selectedBookId,
   selectedSheetId |-> selectedSheetId, history |-> history, future |-> future]

Returned(st, ret) == [st |-> st, ret |-> ret]

cloneSnapshot(value) == value

findActiveSheetId(found, book) ==
  IF found /\ book.sheets # <<>> THEN book.sheets[1].id ELSE Null

\* books.findIndex((entry) => entry.data.book.id === id), 0 for -1
BookIndexById(books, id) ==
  LET P(entry) == entry.data.book.id = id IN FindIndex(books, P)

deriveInitialSelection(snap) ==
  LET fallbackBookFromWorkspace ==
        IF snap.workspace.data.books # <<>> THEN snap.workspace.data.books[1].id ELSE Null
      fallbackBookFromFiles ==
        IF snap.books # <<>> THEN snap.books[1].data.book.id ELSE Null
      nextBookId ==
        IF fallbackBookFromWorkspace # Null THEN fallbackBookFromWorkspace
        ELSE fallbackBookFromFiles
      idx == BookIndexById(snap.books, nextBookId)
  IN [bookId |-> nextBookId,
      sheetId |-> IF idx = 0 THEN Null ELSE findActiveSheetId(TRUE, snap.books[idx].data)]

\* the counter loop of createDefaultBookName / createDefaultSheetName
RECURSIVE FreeCounter(_, _, _)
FreeCounter(base, existing, counter) ==
  IF (base \o " (" \o ToString(counter) \o ")") \in existing
  THEN FreeCounter(base, existing, counter + 1)
  ELSE counter

\* variant of DefaultName that numbers the new name by how many names exist
DefaultName_byCount(base, existing) ==
  IF base \notin existing THEN base
  ELSE base \o " (" \o ToString(Cardinality(existing) + 1) \o ")"

DefaultName(base, existing) ==
  IF base \notin existing THEN base
  ELSE base \o " (" \o ToString(FreeCounter(base, existing, 2)) \o ")"

BOOK_BASE_NAME == "NewBook"
createDefaultBookName(snap) ==
  DefaultName(BOOK_BASE_NAME, {snap.books[i].data.book.name : i \in 1..Len(snap.books)})

\* variant of recordSnapshotForUndo whose slice keeps one entry too many
recordSnapshotForUndo_offByOne(st) ==
  IF st.snapshot = NullSnapshot THEN st
  ELSE LET entry == [snapshot |-> st.snapshot,
                     selectedBookId |-> st.selectedBookId,
                     selectedSheetId |-> st.selectedSheetId]
       IN [st EXCEPT
             !.history =
               IF Len(st.history) >= MAX_HISTORY_ENTRIES
               THEN Append(SliceFrom(st.history, Len(st.history) - MAX_HISTORY_ENTRIES), entry)
               ELSE Append(st.history, entry),
             !.future = <<>>]

\* variant of recordSnapshotForUndo that forgets to clear the redo stack
recordSnapshotForUndo_keepsFuture(st) ==
  IF st.snapshot = NullSnapshot THEN st
  ELSE LET entry == [snapshot |-> st.snapshot,
                     selectedBookId |-> st.selectedBookId,
                     selectedSheetId |-> st.selectedSheetId]
       IN [st EXCEPT !.history =
             IF Len(st.history) >= MAX_HISTORY_ENTRIES
             THEN Append(SliceFrom(st.history, Len(st.history) - MAX_HISTORY_ENTRIES + 1), entry)
             ELSE Append(st.history, entry)]

recordSnapshotForUndo(st) ==
  IF st.snapshot = NullSnapshot THEN st
  ELSE LET entry == [snapshot |-> cloneSnapshot(st.snapshot),
                     selectedBookId |-> st.selectedBookId,
                     selectedSheetId |-> st.selectedSheetId]
           nextHistory ==
             IF Len(st.history) >= MAX_HISTORY_ENTRIES
             THEN Append(SliceFrom(st.history, Len(st.history) - MAX_HISTORY_ENTRIES + 1), entry)
             ELSE Append(st.history, entry)
       IN [st EXCEPT !.history = nextHistory, !.future = <<>>]

applySelectionAfterSnapshot(st, snap) ==
  IF snap = NullSnapshot
  THEN [st EXCEPT !.selectedBookId = Null, !.selectedSheetId = Null]
  ELSE LET sel == deriveInitialSelection(snap)
       IN [st EXCEPT !.selectedBookId = sel.bookId, !.selectedSheetId = sel.sheetId]

resetWorkspace(st) ==
  Returned([snapshot |-> NullSnapshot, selectedBookId |-> Null, selectedSheetId |-> Null,
            history |-> <<>>, future |-> <<>>], "ok")

\* variant of loadWorkspace that keeps the undo stack of the workspace open before
loadWorkspace_keepsHistory(st, snap) ==
  Returned(applySelectionAfterSnapshot([st EXCEPT !.snapshot = snap, !.future = <<>>], snap), "ok")

loadWorkspace(st, snap) ==
  Returned(applySelectionAfterSnapshot(
             [st EXCEPT !.snapshot = snap, !.history = <<>>, !.future = <<>>], snap), "ok")

selectBook(st, bookId) ==
  IF st.snapshot = NullSnapshot
  THEN Returned([st EXCEPT !.selectedBookId = Null, !.selectedSheetId = Null], "ok")
  ELSE LET idx == BookIndexById(st.snapshot.books, bookId)
       IN Returned([st EXCEPT !.selectedBookId = bookId,
                              !.selectedSheetId =
                                 IF idx = 0 THEN Null
                                 ELSE findActiveSheetId(TRUE, st.snapshot.books[idx].data)],
                   "ok")

selectSheet(st, bookId, sheetId) ==
  Returned([st EXCEPT !.selectedBookId = bookId, !.selectedSheetId = sheetId], "ok")

\* variant of TouchRecent that keeps every earlier id
TouchRecent_uncapped(list, id) == <<id>> \o FilterOut(list, id)

\* [id, ...list.filter((x) => x !== id)].slice(0, 20)
TouchRecent(list, id) == SliceTo(<<id>> \o FilterOut(list, id), RECENT_LIMIT)

\* the workspace file with updatedAt, both recent lists and the references replaced
WithWorkspaceData(snap, now, recentBookIds, recentSheetIds, refs) ==
  [snap.workspace.data EXCEPT
     !.workspace.updatedAt = now,
     !.workspace.settings.recentBookIds = recentBookIds,
     !.workspace.settings.recentSheetIds = recentSheetIds,
     !.books = refs]

----------------------------------------------------------------------------
(* lib/workspace/bookFactory.ts *)

DEFAULT_SHEET_NAME == "Sheet1"

buildNewBookSnapshot(nameInput, snap, now, u) ==
  LET trimmedName == Trim(nameInput)
      bookId == generateId("book", u)
      sheetId == generateId("sheet", u + 1)
      workspaceDir == getWorkspaceDir(snap.workspace.filePath)
      dataPath == <<BOOKS_DIR, "/", bookId \o ".json">>
      absoluteBookPath == joinWorkspacePath(workspaceDir, dataPath)
      bookFile ==
        [book |-> [id |-> bookId, name |-> trimmedName, updatedAt |-> now],
         sheets |-> <<[id |-> sheetId, name |-> DEFAULT_SHEET_NAME,
                       gridSize |-> [rows |-> DEFAULT_ROWS, cols |-> DEFAULT_COLS],
                       rows |-> EmptyMap]>>]
      nextOrder == Len(snap.workspace.data.books)
      bookReference ==
        [id |-> bookId, name |-> bookId \o ".json", folderId |-> Null, order |-> nextOrder,
         dataPath |-> dataPath, activeSheetId |-> sheetId, updatedAt |-> now]
      previousSettings == snap.workspace.data.workspace.settings
      workspaceData ==
        WithWorkspaceData(snap, now,
                          TouchRecent(previousSettings.recentBookIds, bookId),
                          TouchRecent(previousSettings.recentSheetIds, sheetId),
                          Append(snap.workspace.data.books, bookReference))
  IN IF trimmedName = ""
     THEN [threw |-> TRUE]
     ELSE [threw |-> FALSE, workspaceData |-> workspaceData, bookReference |-> bookReference,
           loadedBook |-> [filePath |-> absoluteBookPath, data |-> bookFile],
           defaultSheetId |-> sheetId]

----------------------------------------------------------------------------
(* lib/workspace/sheetFactory.ts *)

SHEET_BASE_NAME == "NewSheet"
createDefaultSheetName(book) ==
  DefaultName(SHEET_BASE_NAME, {book.sheets[i].name : i \in 1..Len(book.sheets)})

createEmptySheet(name, u) ==
  [id |-> generateId("sheet", u), name |-> name,
   gridSize |-> [rows |-> DEFAULT_ROWS, cols |-> DEFAULT_COLS], rows |-> EmptyMap]

buildNewSheetSnapshot(bookFile, now, u) ==
  LET newSheet == createEmptySheet(createDefaultSheetName(bookFile), u)
  IN [bookFile |-> [bookFile EXCEPT !.book.updatedAt = now,
                                    !.sheets = Append(bookFile.sheets, newSheet)],
      defaultSheetId |-> newSheet.id]

----------------------------------------------------------------------------
(* Store operations that change the snapshot *)

\* variant of createBook that leaves the selection where it was
createBook_keepsSelection(st, now, u) ==
  IF st.snapshot = NullSnapshot THEN Returned(st, "error")
  ELSE LET recorded == recordSnapshotForUndo(st)
           desiredName == createDefaultBookName(st.snapshot)
           built == buildNewBookSnapshot(desiredName, st.snapshot, now, u)
       IN IF built.threw THEN Returned(recorded, "error")
          ELSE Returned(
                 [recorded EXCEPT
                    !.snapshot = [workspace |-> [filePath |-> st.snapshot.workspace.filePath,
                                                 data |-> built.workspaceData],
                                  books |-> Append(st.snapshot.books, built.loadedBook)]],
                 "ok")

createBook(st, now, u) ==
  IF st.snapshot = NullSnapshot THEN Returned(st, "error")
  ELSE LET recorded == recordSnapshotForUndo(st)
           desiredName == createDefaultBookName(st.snapshot)
           built == buildNewBookSnapshot(desiredName, st.snapshot, now, u)
       IN IF built.threw THEN Returned(recorded, "error")
          ELSE Returned(
                 [recorded EXCEPT
                    !.snapshot = [workspace |-> [filePath |-> st.snapshot.workspace.filePath,
                                                 data |-> built.workspaceData],
                                  books |-> Append(st.snapshot.books, built.loadedBook)],
                    !.selectedBookId = built.loadedBook.data.book.id,
                    !.selectedSheetId = built.defaultSheetId],
                 "ok")

createSheet_marksEveryReference(st, bookId, now, u) ==
  IF st.snapshot = NullSnapshot THEN Returned(st, "error")
  ELSE
    LET snap == st.snapshot
        bookIndex == BookIndexById(snap.books, bookId)
    IN IF bookIndex = 0 THEN Returned(st, "error")
       ELSE
         LET recorded == recordSnapshotForUndo(st)
             built == buildNewSheetSnapshot(snap.books[bookIndex].data, now, u)
             defaultSheetId == built.defaultSheetId
             nextBooks == [i \in 1..Len(snap.books) |->
                             IF i = bookIndex
                             THEN [snap.books[i] EXCEPT !.data = built.bookFile]
                             ELSE snap.books[i]]
             previousSettings == snap.workspace.data.workspace.settings
             refs == snap.workspace.data.books
             updatedWorkspaceBooks ==
               [i \in 1..Len(refs) |->
                  [refs[i] EXCEPT !.activeSheetId = defaultSheetId, !.updatedAt = now]]
             workspaceData ==
               WithWorkspaceData(snap, now,
                                 TouchRecent(previousSettings.recentBookIds, bookId),
                                 TouchRecent(previousSettings.recentSheetIds, defaultSheetId),
                                 updatedWorkspaceBooks)
         IN Returned(
              [recorded EXCEPT
                 !.snapshot = [workspace |-> [snap.workspace EXCEPT !.data = workspaceData],
                               books |-> nextBooks],
                 !.selectedBookId = bookId,
                 !.selectedSheetId = defaultSheetId],
              "ok")

createSheet(st, bookId, now, u) ==
  IF st.snapshot = NullSnapshot THEN Returned(st, "error")
  ELSE
    LET snap == st.snapshot
        bookIndex == BookIndexById(snap.books, bookId)
    IN IF bookIndex = 0 THEN Returned(st, "error")
       ELSE
         LET recorded == recordSnapshotForUndo(st)
             built == buildNewSheetSnapshot(snap.books[bookIndex].data, now, u)
             defaultSheetId == built.defaultSheetId
             nextBooks == [i \in 1..Len(snap.books) |->
                             IF i = bookIndex
                             THEN [snap.books[i] EXCEPT !.data = built.bookFile]
                             ELSE snap.books[i]]
             previousSettings == snap.workspace.data.workspace.settings
             refs == snap.workspace.data.books
             updatedWorkspaceBooks ==
               [i \in 1..Len(refs) |->
                  IF refs[i].id = bookId
                  THEN [refs[i] EXCEPT !.activeSheetId = defaultSheetId, !.updatedAt = now]
                  ELSE refs[i]]
             workspaceData ==
               WithWorkspaceData(snap, now,
                                 TouchRecent(previousSettings.recentBookIds, bookId),
                                 TouchRecent(previousSettings.recentSheetIds, defaultSheetId),
                                 updatedWorkspaceBooks)
         IN Returned(
              [recorded EXCEPT
                 !.snapshot = [workspace |-> [snap.workspace EXCEPT !.data = workspaceData],
                               books |-> nextBooks],
                 !.selectedBookId = bookId,
                 !.selectedSheetId = defaultSheetId],
              "ok")

\* rows[rowKey] ?? {}
RowOf(rows, rowKey) == IF rowKey \in DOMAIN rows THEN rows[rowKey] ELSE EmptyMap

\* variant of the forEach body that counts every update as an effective change
ApplyOneUpdate_alwaysEffective(currentRows, acc, update) ==
  LET rowBefore == RowOf(acc.nextRows, update.rowKey)
      trimmed == Trim(update.value)
      numeric == NumberOf(trimmed)
      nextRowData ==
        IF trimmed = "" THEN MapDelete(rowBefore, update.columnKey)
        ELSE IF numeric # "NaN"
             THEN MapSet(rowBefore, update.columnKey, [value |-> numeric, type |-> "number"])
             ELSE MapSet(rowBefore, update.columnKey, [value |-> update.value, type |-> "string"])
  IN [nextRows |-> IF DOMAIN nextRowData = {}
                   THEN MapDelete(acc.nextRows, update.rowKey)
                   ELSE MapSet(acc.nextRows, update.rowKey, nextRowData),
      hasEffectiveChange |-> TRUE]

\* variant of the forEach body that keeps a row entry that lost its last cell
ApplyOneUpdate_keepsEmptyRow(currentRows, acc, update) ==
  LET rowBefore == RowOf(acc.nextRows, update.rowKey)
      trimmed == Trim(update.value)
      numeric == NumberOf(trimmed)
      hasCell == update.columnKey \in DOMAIN RowOf(currentRows, update.rowKey)
      nextRowData ==
        IF trimmed = "" THEN MapDelete(rowBefore, update.columnKey)
        ELSE IF numeric # "NaN"
             THEN MapSet(rowBefore, update.columnKey, [value |-> numeric, type |-> "number"])
             ELSE MapSet(rowBefore, update.columnKey, [value |-> update.value, type |-> "string"])
  IN [nextRows |-> MapSet(acc.nextRows, update.rowKey, nextRowData),
      hasEffectiveChange |-> acc.hasEffectiveChange \/ trimmed # "" \/ hasCell]

\* one turn of updates.forEach in applyCellUpdates: acc = [nextRows, hasEffectiveChange]
ApplyOneUpdate(currentRows, acc, update) ==
  LET rowKey == update.rowKey
      columnKey == update.columnKey
      value == update.value
      currentRowData == RowOf(currentRows, rowKey)
      hasCell == columnKey \in DOMAIN currentRowData
      currentCell == currentRowData[columnKey]
      rowBefore == RowOf(acc.nextRows, rowKey)
      trimmed == Trim(value)
      numeric == NumberOf(trimmed)
      isNumber == trimmed # "" /\ numeric # "NaN"
      changed ==
        IF trimmed = "" THEN hasCell
        ELSE IF isNumber
             THEN ~hasCell \/ currentCell.type # "number" \/ currentCell.value # numeric
             ELSE ~hasCell \/ currentCell.type # "string" \/ currentCell.value # value
      nextRowData ==
        IF trimmed = "" THEN MapDelete(rowBefore, columnKey)
        ELSE IF isNumber
             THEN MapSet(rowBefore, columnKey, [value |-> numeric, type |-> "number"])
             ELSE MapSet(rowBefore, columnKey, [value |-> value, type |-> "string"])
      nextRows ==
        IF DOMAIN nextRowData = {}
        THEN MapDelete(acc.nextRows, rowKey)
        ELSE MapSet(acc.nextRows, rowKey, nextRowData)
  IN [nextRows |-> nextRows, hasEffectiveChange |-> acc.hasEffectiveChange \/ changed]

RECURSIVE ApplyUpdatesLoop(_, _, _)
ApplyUpdatesLoop(currentRows, acc, updates) ==
  IF updates = <<>> THEN acc
  ELSE ApplyUpdatesLoop(currentRows, ApplyOneUpdate(currentRows, acc, Head(updates)),
                        Tail(updates))

SheetIndexById(sheets, id) ==
  LET P(sheet) == sheet.id = id IN FindIndex(sheets, P)

applyCellUpdates(st, updates, now) ==
  IF updates = <<>> THEN Returned(st, "null")
  ELSE IF st.snapshot = NullSnapshot \/ st.selectedBookId = Null \/ st.selectedSheetId = Null
  THEN Returned(st, "null")
  ELSE
    LET snap == st.snapshot
        bookIndex == BookIndexById(snap.books, st.selectedBookId)
    IN IF bookIndex = 0 THEN Returned(st, "null")
       ELSE
         LET bookEntry == snap.books[bookIndex]
             sheetIndex == SheetIndexById(bookEntry.data.sheets, st.selectedSheetId)
         IN IF sheetIndex = 0 THEN Returned(st, "null")
            ELSE
              LET targetSheet == bookEntry.data.sheets[sheetIndex]
                  currentRows == targetSheet.rows
                  loop == ApplyUpdatesLoop(currentRows,
                            [nextRows |-> currentRows, hasEffectiveChange |-> FALSE], updates)
              IN IF ~loop.hasEffectiveChange THEN Returned(st, "null")
                 ELSE
                   LET recorded == recordSnapshotForUndo(st)
                       nextSheets == [bookEntry.data.sheets EXCEPT
                                        ![sheetIndex] = [targetSheet EXCEPT !.rows = loop.nextRows]]
                       previousSettings == snap.workspace.data.workspace.settings
                       refs == snap.workspace.data.books
                       updatedWorkspaceBooks ==
                         [i \in 1..Len(refs) |->
                            IF refs[i].id = st.selectedBookId
                            THEN [refs[i] EXCEPT !.activeSheetId = st.selectedSheetId,
                                                 !.updatedAt = now]
                            ELSE refs[i]]
                       workspaceData ==
                         WithWorkspaceData(snap, now,
                           TouchRecent(previousSettings.recentBookIds, st.selectedBookId),
                           TouchRecent(previousSettings.recentSheetIds, st.selectedSheetId),
                           updatedWorkspaceBooks)
                       nextSnapshot ==
                         [workspace |-> [snap.workspace EXCEPT !.data = workspaceData],
                          books |-> [snap.books EXCEPT ![bookIndex].data.sheets = nextSheets]]
                   IN Returned([recorded EXCEPT !.snapshot = nextSnapshot], "ok")

renameBook(st, bookId, nextName, now) ==
  LET trimmed == Trim(nextName)
  IN IF trimmed = "" THEN Returned(st, "null")
     ELSE IF st.snapshot = NullSnapshot THEN Returned(st, "null")
     ELSE
       LET snap == st.snapshot
           bookIndex == BookIndexById(snap.books, bookId)
       IN IF bookIndex = 0 THEN Returned(st, "null")
          ELSE IF snap.books[bookIndex].data.book.name = trimmed THEN Returned(st, "null")
          ELSE
            LET recorded == recordSnapshotForUndo(st)
                updatedBooks == [snap.books EXCEPT ![bookIndex].data.book.name = trimmed,
                                                   ![bookIndex].data.book.updatedAt = now]
                refs == snap.workspace.data.books
                updatedWorkspaceBooks ==
                  [i \in 1..Len(refs) |->
                     IF refs[i].id = bookId THEN [refs[i] EXCEPT !.updatedAt = now]
                     ELSE refs[i]]
                workspaceData == [snap.workspace.data EXCEPT
                                    !.workspace.updatedAt = now,
                                    !.books = updatedWorkspaceBooks]
                nextSnapshot ==
                  [workspace |-> [snap.workspace EXCEPT !.data = workspaceData],
                   books |-> updatedBooks]
            IN Returned([recorded EXCEPT !.snapshot = nextSnapshot], "ok")

CurrentEntry(st) ==
  [snapshot |-> cloneSnapshot(st.snapshot), selectedBookId |-> st.selectedBookId,
   selectedSheetId |-> st.selectedSheetId]

\* variant of undo that installs the snapshot but leaves the selection as it is
undo_keepsSelection(st) ==
  IF st.snapshot = NullSnapshot \/ Len(st.history) = 0 THEN Returned(st, "null")
  ELSE Returned([snapshot |-> st.history[Len(st.history)].snapshot,
                 selectedBookId |-> st.selectedBookId,
                 selectedSheetId |-> st.selectedSheetId,
                 history |-> Front(st.history),
                 future |-> Append(st.future, CurrentEntry(st))], "ok")

\* variant of undo that drops the redo stack when there is nothing to undo
undo_emptyDropsFuture(st) ==
  IF st.snapshot = NullSnapshot \/ Len(st.history) = 0
  THEN Returned([st EXCEPT !.future = <<>>], "null")
  ELSE LET lastEntry == st.history[Len(st.history)]
       IN Returned([snapshot |-> lastEntry.snapshot,
                    selectedBookId |-> lastEntry.selectedBookId,
                    selectedSheetId |-> lastEntry.selectedSheetId,
                    history |-> Front(st.history),
                    future |-> Append(st.future, CurrentEntry(st))], "ok")

undo(st) ==
  IF st.snapshot = NullSnapshot \/ Len(st.history) = 0 THEN Returned(st, "null")
  ELSE LET lastEntry == st.history[Len(st.history)]
       IN Returned([snapshot |-> lastEntry.snapshot,
                    selectedBookId |-> lastEntry.selectedBookId,
                    selectedSheetId |-> lastEntry.selectedSheetId,
                    history |-> Front(st.history),
                    future |-> Append(st.future, CurrentEntry(st))], "ok")

\* variant of redo that takes the oldest entry of the redo stack
redo_takesOldest(st) ==
  IF st.snapshot = NullSnapshot \/ Len(st.future) = 0 THEN Returned(st, "null")
  ELSE Returned([snapshot |-> st.future[1].snapshot,
                 selectedBookId |-> st.future[1].selectedBookId,
                 selectedSheetId |-> st.future[1].selectedSheetId,
                 history |-> Append(st.history, CurrentEntry(st)),
                 future |-> Tail(st.future)], "ok")

\* variant of redo that leaves the entry it installs on the redo stack
redo_keepsEntry(st) ==
  IF st.snapshot = NullSnapshot \/ Len(st.future) = 0 THEN Returned(st, "null")
  ELSE LET nextEntry == st.future[Len(st.future)]
       IN Returned([snapshot |-> nextEntry.snapshot,
                    selectedBookId |-> nextEntry.selectedBookId,
                    selectedSheetId |-> nextEntry.selectedSheetId,
                    history |-> Append(st.history, CurrentEntry(st)),
                    future |-> st.future], "ok")

redo(st) ==
  IF st.snapshot = NullSnapshot \/ Len(st.future) = 0 THEN Returned(st, "null")
  ELSE LET nextEntry == st.future[Len(st.future)]
       IN Returned([snapshot |-> nextEntry.snapshot,
                    selectedBookId |-> nextEntry.selectedBookId,
                    selectedSheetId |-> nextEntry.selectedSheetId,
                    history |-> Append(st.history, CurrentEntry(st)),
                    future |-> Front(st.future)], "ok")

----------------------------------------------------------------------------
(* Inputs *)

\* a workspace opened from a Windows path: one book without sheets, and a
\* reference whose book file is not loaded
windowsSnapshot ==
  [workspace |->
     [filePath |-> <<"C:", "\\", "ws", "\\", "workspace.json">>,
      data |-> [workspace |-> [updatedAt |-> 0,
                               settings |-> [recentBookIds |-> <<>>, recentSheetIds |-> <<>>]],
                folders |-> <<>>,
                books |-> <<[id |-> "book-a", name |-> "book-a.json", folderId |-> Null,
                             order |-> 0, dataPath |-> <<"books", "/", "book-a.json">>,
                             activeSheetId |-> Null, updatedAt |-> 0]>>]],
   books |-> <<[filePath |-> <<"C:", "\\", "ws", "\\", "books", "\\", "book-a.json">>,
                data |-> [book |-> [id |-> "book-a", name |-> "NewBook", updatedAt |-> 0],
                          sheets |-> <<>>]]>>]

LoadableSnapshots == {sampleSnapshot, windowsSnapshot}

MISSING_BOOK == "book-none"
MISSING_SHEET == "sheet-none"

BookIdsOf(snap) ==
  IF snap = NullSnapshot THEN {}
  ELSE {snap.books[i].data.book.id : i \in 1..Len(snap.books)}

BookIdInputs == BookIdsOf(snapshot) \cup {MISSING_BOOK}
SheetIdInputs(bookId) ==
  LET idx == IF snapshot = NullSnapshot THEN 0 ELSE BookIndexById(snapshot.books, bookId)
  IN (IF idx = 0 THEN {}
      ELSE {snapshot.books[idx].data.sheets[j].id : j \in 1..Len(snapshot.books[idx].data.sheets)})
     \cup (IF idx = 0 THEN {} ELSE {MISSING_SHEET})

RawValues == {"", "5", " 5", "x"}
CellUpdates == {[rowKey |-> "1", columnKey |-> "A", value |-> v] : v \in RawValues}

RECURSIVE SeqsUpTo(_, _)
SeqsUpTo(S, n) ==
  IF n = 0 THEN {<<>>}
  ELSE LET shorter == SeqsUpTo(S, n - 1)
       IN shorter \cup {Append(q, x) : q \in shorter, x \in S}

Batches == SeqsUpTo(CellUpdates, MaxBatch)

NameInputs == {"", "Renamed", " Renamed"}

----------------------------------------------------------------------------
(* Actions: one per store operation *)

\* the store takes the state a call produced
Install(op, r, ticks, ids) ==
  /\ snapshot' = r.st.snapshot
  /\ selectedBookId' = r.st.selectedBookId
  /\ selectedSheetId' = r.st.selectedSheetId
  /\ history' = r.st.history
  /\ future' = r.st.future
  /\ clock' = IF r.ret = "ok" THEN clock + ticks ELSE clock
  /\ uid' = IF r.ret = "ok" THEN uid + ids ELSE uid
  /\ lastCall' = [op |-> op, ret |-> r.ret]

\* a store call made outside the application shell
Call(op, r, ticks, ids) ==
  /\ Install(op, r, ticks, ids)
  /\ UNCHANGED <<integ, grid, app>>

ResetWorkspace == Call("resetWorkspace", resetWorkspace(Store), 0, 0)

LoadWorkspace == \E snap \in LoadableSnapshots : Call("loadWorkspace", loadWorkspace(Store, snap), 0, 0)

SelectBook == \E bookId \in BookIdInputs : Call("selectBook", selectBook(Store, bookId), 0, 0)

SelectSheet ==
  \E bookId \in BookIdInputs : \E sheetId \in SheetIdInputs(bookId) :
    Call("selectSheet", selectSheet(Store, bookId, sheetId), 0, 0)

CreateBook == Call("createBook", createBook(Store, clock, uid), 1, 2)

CreateSheet ==
  \E bookId \in BookIdInputs : Call("createSheet", createSheet(Store, bookId, clock, uid), 1, 1)

ApplyCellUpdates ==
  \E updates \in Batches : Call("applyCellUpdates", applyCellUpdates(Store, updates, clock), 1, 0)

RenameBook ==
  \E bookId \in BookIdInputs, nextName \in NameInputs :
    Call("renameBook", renameBook(Store, bookId, nextName, clock), 1, 0)

Undo == Call("undo", undo(Store), 0, 0)

Redo == Call("redo", redo(Store), 0, 0)

NoCall == [op |-> "none", ret |-> "none"]
NoInteg == [stage |-> "idle"]
NoGrid == [mounted |-> FALSE]
NoApp == [mounted |-> FALSE]

\* isTauri ? null : sampleSnapshot
Init ==
  /\ \E isTauri \in BOOLEAN :
       /\ snapshot = IF isTauri THEN NullSnapshot ELSE sampleSnapshot
       /\ selectedBookId = IF isTauri THEN Null ELSE deriveInitialSelection(sampleSnapshot).bookId
       /\ selectedSheetId = IF isTauri THEN Null ELSE deriveInitialSelection(sampleSnapshot).sheetId
  /\ history = <<>>
  /\ future = <<>>
  /\ clock = 1
  /\ uid = 1
  /\ lastCall = NoCall
  /\ integ = NoInteg
  /\ grid = NoGrid
  /\ app = NoApp

Next ==
  \/ ResetWorkspace
  \/ LoadWorkspace
  \/ SelectBook
  \/ SelectSheet
  \/ (clock <= MaxClock /\ CreateBook)
  \/ (clock <= MaxClock /\ CreateSheet)
  \/ (clock <= MaxClock /\ ApplyCellUpdates)
  \/ (clock <= MaxClock /\ RenameBook)
  \/ Undo
  \/ Redo

Spec == Init /\ [][Next]_vars

----------------------------------------------------------------------------
(* SpecEdit: an editing session on the sample workspace, without loads and  *)
(* selection changes, explored to a greater depth.                          *)

InitSample ==
  /\ snapshot = sampleSnapshot
  /\ selectedBookId = deriveInitialSelection(sampleSnapshot).bookId
  /\ selectedSheetId = deriveInitialSelection(sampleSnapshot).sheetId
  /\ history = <<>>
  /\ future = <<>>
  /\ clock = 1
  /\ uid = 1
  /\ lastCall = NoCall
  /\ integ = NoInteg
  /\ grid = NoGrid
  /\ app = NoApp

NextEdit ==
  \/ (clock <= MaxEditOps /\ CreateBook)
  \/ (clock <= MaxEditOps /\ CreateSheet)
  \/ (clock <= MaxEditOps /\ ApplyCellUpdates)
  \/ (clock <= MaxEditOps /\ RenameBook)
  \/ Undo
  \/ Redo

SpecEdit == InitSample /\ [][NextEdit]_vars

----------------------------------------------------------------------------
(* SpecHist: one long run of single-cell commits and renames made at the    *)
(* tip of the history, with undo and redo, to fill the history stack.       *)

HistEdit ==
  /\ future = <<>>
  /\ clock <= MaxHistOps
  /\ clock % 3 # 0
  /\ \E v \in {"5", "x"} :
       Call("applyCellUpdates",
            applyCellUpdates(Store, <<[rowKey |-> "1", columnKey |-> "A", value |-> v]>>, clock),
            1, 0)

HistRename ==
  /\ future = <<>>
  /\ clock <= MaxHistOps
  /\ clock % 3 = 0
  /\ \E n \in {"Renamed", "Project"} :
       Call("renameBook", renameBook(Store, "book-001", n, clock), 1, 0)

HistUndo == Len(future) < MaxHistUndo /\ Undo

NextHist ==
  \/ HistEdit
  \/ HistRename
  \/ HistUndo
  \/ Redo

SpecHist == InitSample /\ [][NextHist]_vars

----------------------------------------------------------------------------
(* What the mutating operations return from a store state, over all inputs  *)

MutationResults(st) ==
  {createBook(st, clock, uid)}
    \cup {createSheet(st, bookId, clock, uid) : bookId \in BookIdInputs}
    \cup {applyCellUpdates(st, updates, clock) : updates \in Batches}
    \cup {renameBook(st, bookId, nextName, clock) : bookId \in BookIdInputs, nextName \in NameInputs}

MutatingOps == {"createBook", "createSheet", "applyCellUpdates", "renameBook"}

EntryOf(st) ==
  [snapshot |-> st.snapshot, selectedBookId |-> st.selectedBookId,
   selectedSheetId |-> st.selectedSheetId]

----------------------------------------------------------------------------
(* Properties of the store *)

\* C1: from every reachable store state with snapshot S and selection (b, s),
\* every effective mutating operation followed at once by undo() installs S
\* and (b, s), removes the last history entry, and appends to future an
\* entry with the post-mutation snapshot and the selection held before the undo.
C1_UndoAfterMutation ==
  \A r \in MutationResults(Store) :
    r.ret = "ok" =>
      LET u == undo(r.st)
      IN /\ u.ret = "ok"
         /\ u.st.snapshot = snapshot
         /\ u.st.selectedBookId = selectedBookId
         /\ u.st.selectedSheetId = selectedSheetId
         /\ u.st.history = Front(r.st.history)
         /\ u.st.future = Append(r.st.future, EntryOf(r.st))
         /\ Last(u.st.future).snapshot # snapshot

\* an undo has just undone a mutation: the redo stack holds the undone snapshot
C1_Witness ==
  /\ lastCall = [op |-> "undo", ret |-> "ok"]
  /\ Len(future) = 1
  /\ snapshot # NullSnapshot
  /\ future[1].snapshot # snapshot
  /\ selectedBookId # Null

\* C3: in every state whose history is not empty, undo() followed at once by
\* redo() gives back the snapshot, the selected book and sheet, and both stacks.
C3_UndoRedoSymmetry ==
  (snapshot # NullSnapshot /\ Len(history) > 0) =>
    LET u == undo(Store)
        r == redo(u.st)
    IN /\ u.ret = "ok"
       /\ r.ret = "ok"
       /\ r.st = Store

\* a redo has just restored an undone mutation
C3_Witness ==
  /\ lastCall = [op |-> "redo", ret |-> "ok"]
  /\ Len(history) >= 2
  /\ Len(future) >= 1

\* C4: every effective mutating operation leaves the future stack empty, so
\* a redo() right after it returns null, also when undos came before it.
C4_MutationClearsFuture ==
  \A r \in MutationResults(Store) :
    r.ret = "ok" =>
      /\ r.st.future = <<>>
      /\ redo(r.st).ret = "null"
      /\ redo(r.st).st = r.st

\* a mutation was made after an undo: fewer history entries than mutations made
C4_Witness ==
  /\ lastCall.op \in MutatingOps
  /\ lastCall.ret = "ok"
  /\ future = <<>>
  /\ Len(history) < clock - 1

StampOf(snap) == snap.workspace.data.workspace.updatedAt

\* C2: the history stack never holds more than 100 entries; an effective
\* mutation recorded on a full stack drops the oldest entry, keeps the other
\* 99 in order and puts the pre-mutation entry last; so after k mutations
\* made at the tip the stack holds the min(k, 100) latest pre-mutation
\* snapshots, oldest first (the snapshot before the j-th mutation carries
\* the time stamp j - 1).
C2_BoundedHistory ==
  /\ Len(history) <= MAX_HISTORY_ENTRIES
  /\ \A r \in MutationResults(Store) :
       r.ret = "ok" =>
         r.st.history =
           IF Len(history) >= MAX_HISTORY_ENTRIES
           THEN Append(Tail(history), EntryOf(Store))
           ELSE Append(history, EntryOf(Store))
  /\ future = <<>> =>
       /\ Len(history) = Min2(clock - 1, MAX_HISTORY_ENTRIES)
       /\ \A i \in 1..Len(history) :
            StampOf(history[i].snapshot) = (clock - 1) - Len(history) + (i - 1)

\* 150 mutations were made: the stack is full and its oldest entry is the
\* snapshot before the 51st mutation
C2_Witness ==
  /\ clock - 1 = 150
  /\ future = <<>>
  /\ Len(history) = MAX_HISTORY_ENTRIES
  /\ StampOf(history[1].snapshot) = 50
  /\ lastCall.ret = "ok"
  /\ lastCall.op \in MutatingOps

SheetRows(st) ==
  LET b == BookIndexById(st.snapshot.books, st.selectedBookId)
      sh == SheetIndexById(st.snapshot.books[b].data.sheets, st.selectedSheetId)
  IN st.snapshot.books[b].data.sheets[sh].rows

HasTargetSheet(st) ==
  /\ st.snapshot # NullSnapshot
  /\ BookIndexById(st.snapshot.books, st.selectedBookId) # 0
  /\ SheetIndexById(st.snapshot.books[BookIndexById(st.snapshot.books, st.selectedBookId)].data.sheets,
                    st.selectedSheetId) # 0

\* the rows of the target sheet once every update of the batch is applied
RowsAfterBatch(st, updates) ==
  ApplyUpdatesLoop(SheetRows(st), [nextRows |-> SheetRows(st), hasEffectiveChange |-> FALSE],
                   updates).nextRows

\* C5: a batch, also one with several updates of the same cell, that leaves
\* the rows of the target sheet as they were is a no-op: applyCellUpdates
\* returns null and the store (history and snapshot included) is unchanged.
C5_UnchangedRowsIsNoOp ==
  HasTargetSheet(Store) =>
    \A updates \in Batches :
      RowsAfterBatch(Store, updates) = SheetRows(Store) =>
        /\ applyCellUpdates(Store, updates, clock).ret = "null"
        /\ applyCellUpdates(Store, updates, clock).st = Store

C7_MissingTargetIsError ==
  snapshot # NullSnapshot =>
    /\ createSheet(Store, MISSING_BOOK, clock, uid) = Returned(Store, "error")
    /\ renameBook(Store, MISSING_BOOK, "Renamed", clock) = Returned(Store, "error")
    /\ (selectedBookId # Null /\ selectedSheetId # Null /\ ~HasTargetSheet(Store)) =>
         \A updates \in Batches \ {<<>>} :
           applyCellUpdates(Store, updates, clock) = Returned(Store, "error")

----------------------------------------------------------------------------
(* Integrity engine: lib/workspace/integrity.ts.  detectIntegrityIssues and *)
(* applyIntegrityRepairs are pure functions of a snapshot.  Positions in a  *)
(* list are 1-based here (workspaceBookIndex = JavaScript index + 1) and 0  *)
(* stands for "not found" (-1, null or undefined in the source).  A path is *)
(* the sequence of its segments and separators, so endsWith is a suffix     *)
(* test on that sequence.  A finite order is a natural number; the one      *)
(* non-finite order modelled is NaN (what a missing or non-numeric order    *)
(* subtracts to), written NOT_A_NUMBER.                                     *)

NOT_A_NUMBER == -1

IsFinite(order) == order # NOT_A_NUMBER

\* a === b on order values: NaN equals nothing, itself included
StrictEqualOrders(a, b) == IsFinite(a) /\ IsFinite(b) /\ a = b

Sign(n) == IF n < 0 THEN -1 ELSE IF n > 0 THEN 1 ELSE 0

\* ids in the order String.prototype.localeCompare ranks them
COLLATION == <<"book-001", "book-002", "book-xyz">>

localeCompare(a, b) ==
  LET IsA(x) == x = a
      IsB(x) == x = b
  IN Sign(FindIndex(COLLATION, IsA) - FindIndex(COLLATION, IsB))

normalizePath(value) ==
  [i \in 1..Len(value) |-> IF value[i] = "\\" THEN "/" ELSE value[i]]

EndsWith(s, suffix) ==
  /\ Len(suffix) <= Len(s)
  /\ SubSeq(s, Len(s) - Len(suffix) + 1, Len(s)) = suffix

\* position in snapshot.books of the first document whose path ends with dataPath
resolveByDataPath(snap, dataPath) ==
  LET normalized == normalizePath(dataPath)
      Matches(entry) == EndsWith(normalizePath(entry.filePath), normalized)
  IN FindIndex(snap.books, Matches)

replaceIdInList(list, fromId, toId) ==
  [i \in 1..Len(list) |-> IF list[i] = fromId THEN toId ELSE list[i]]

\* the comparator given to Array.prototype.sort, as the sort sees it: the
\* sign of the returned number, a returned NaN counting as 0
CompareBookOrder(a, b) ==
  IF StrictEqualOrders(a.order, b.order) THEN localeCompare(a.id, b.id)
  ELSE IF IsFinite(a.order) /\ IsFinite(b.order) THEN Sign(a.order - b.order)
  ELSE 0

\* Array.prototype.sort on the positions of a group: a stable sort.  With a
\* comparator that answers 0 for every pair involving a NaN order, run
\* detection of TimSort, a stable merge and this insertion all leave
\* <<1, NaN, 0>> as it is.
RECURSIVE InsertByOrder(_, _, _)
InsertByOrder(books, sorted, x) ==
  IF sorted = <<>> THEN <<x>>
  ELSE IF CompareBookOrder(books[Last(sorted)], books[x]) <= 0 THEN Append(sorted, x)
  ELSE Append(InsertByOrder(books, Front(sorted), x), Last(sorted))

RECURSIVE SortByOrder(_, _, _)
SortByOrder(books, sorted, rest) ==
  IF rest = <<>> THEN sorted
  ELSE SortByOrder(books, InsertByOrder(books, sorted, Head(rest)), Tail(rest))

\* positions of the references of one sibling group (key = folderId ?? null)
GroupPositions(books, key) ==
  LET InGroup(i) == books[i].folderId = key
  IN SelectSeq([i \in 1..Len(books) |-> i], InGroup)

normalizeBookOrders(books) ==
  [i \in 1..Len(books) |->
     LET sorted == SortByOrder(books, <<>>, GroupPositions(books, books[i].folderId))
         IsI(x) == x = i
     IN [books[i] EXCEPT !.order = FindIndex(sorted, IsI) - 1]]

\* variant of the loop that follows one substitution only
resolveCurrentBookIdFrom_oneStep(current, replacements, visited) ==
  IF current \in DOMAIN replacements THEN replacements[current] ELSE current

RECURSIVE resolveCurrentBookIdFrom(_, _, _)
resolveCurrentBookIdFrom(current, replacements, visited) ==
  IF current \in DOMAIN replacements /\ current \notin visited
  THEN resolveCurrentBookIdFrom(replacements[current], replacements, visited \cup {current})
  ELSE current

resolveCurrentBookId(originalId, replacements) ==
  IF originalId = Null THEN Null
  ELSE resolveCurrentBookIdFrom(originalId, replacements, {})

IssueOf(id, type, bookRefId, bookFileId, supportedDecisions, details) ==
  [id |-> id, type |-> type, bookRefId |-> bookRefId, bookFileId |-> bookFileId,
   supportedDecisions |-> supportedDecisions, details |-> details]

FileIdAt(snap, docIndex) ==
  IF docIndex = 0 THEN Null ELSE snap.books[docIndex].data.book.id

SheetIdsAt(snap, docIndex) ==
  IF docIndex = 0 THEN <<>>
  ELSE [j \in 1..Len(snap.books[docIndex].data.sheets) |-> snap.books[docIndex].data.sheets[j].id]

\* variant of the invalid-order issue whose id is built from the list position
InvalidOrderIssue_idFromPosition(snap, refIndex, bookFileId, folderId, order, reason) ==
  IssueOf("invalid-order:" \o ToString(refIndex), "invalid-order",
          snap.workspace.data.books[refIndex].id, bookFileId, {"normalize", "defer"},
          [workspaceBookIndex |-> refIndex, folderId |-> folderId, order |-> order,
           reason |-> reason])

InvalidOrderIssue(snap, refIndex, bookFileId, folderId, order, reason) ==
  IssueOf("invalid-order:" \o snap.workspace.data.books[refIndex].id, "invalid-order",
          snap.workspace.data.books[refIndex].id, bookFileId, {"normalize", "defer"},
          [workspaceBookIndex |-> refIndex, folderId |-> folderId, order |-> order,
           reason |-> reason])

\* variant of the test that flags the first reference of a key again
FirstIsUnflagged_always(acc, orderKey) == TRUE

\* !flaggedDuplicates.has(orderKey)
FirstIsUnflagged(acc, orderKey) == orderKey \notin acc.flaggedDuplicates

\* one turn of workspaceData.books.forEach in detectIntegrityIssues
DetectOne(snap, acc, index) ==
  LET workspaceData == snap.workspace.data
      bookRef == workspaceData.books[index]
      folderIds == {workspaceData.folders[i].id : i \in 1..Len(workspaceData.folders)}
      matchingByPath == resolveByDataPath(snap, bookRef.dataPath)
      byId == BookIndexById(snap.books, bookRef.id)
      matchingById == IF byId # 0 THEN byId ELSE matchingByPath
      mismatch ==
        IF matchingByPath # 0 /\ FileIdAt(snap, matchingByPath) # bookRef.id
        THEN <<IssueOf("book-id-mismatch:" \o bookRef.id \o ":" \o FileIdAt(snap, matchingByPath),
                       "book-id-mismatch", bookRef.id, FileIdAt(snap, matchingByPath),
                       {"useFile", "useWorkspace", "defer"},
                       [workspaceBookIndex |-> index, workspaceId |-> bookRef.id,
                        fileId |-> FileIdAt(snap, matchingByPath),
                        filePath |-> snap.books[matchingByPath].filePath,
                        dataPath |-> bookRef.dataPath])>>
        ELSE <<>>
      activeSheetId == bookRef.activeSheetId
      availableSheetIds == SheetIdsAt(snap, matchingById)
      missingSheet ==
        IF matchingById # 0 /\ activeSheetId # Null
           /\ activeSheetId \notin SeqToSet(availableSheetIds)
        THEN <<IssueOf("missing-active-sheet:" \o bookRef.id, "missing-active-sheet",
                       bookRef.id, FileIdAt(snap, matchingById), {"reset", "defer"},
                       [workspaceBookIndex |-> index, activeSheetId |-> activeSheetId,
                        availableSheetIds |-> availableSheetIds])>>
        ELSE <<>>
      folderId == bookRef.folderId
      missingFolder ==
        IF folderId # Null /\ folderId \notin folderIds
        THEN <<IssueOf("missing-folder-reference:" \o bookRef.id, "missing-folder-reference",
                       bookRef.id, FileIdAt(snap, matchingById), {"reset", "defer"},
                       [workspaceBookIndex |-> index, folderId |-> folderId])>>
        ELSE <<>>
      order == bookRef.order
      orderKey == <<IF folderId = Null THEN "__root__" ELSE folderId, order>>
      seen == IsFinite(order) /\ orderKey \in DOMAIN acc.duplicateTracker
      firstIndex == acc.duplicateTracker[orderKey]
      invalidOrder ==
        IF ~IsFinite(order)
        THEN <<InvalidOrderIssue(snap, index, FileIdAt(snap, matchingById), folderId, order,
                                 "non-finite")>>
        ELSE IF seen
        THEN (IF FirstIsUnflagged(acc, orderKey)
              THEN <<InvalidOrderIssue(snap, firstIndex,
                        FileIdAt(snap, BookIndexById(snap.books,
                                                     workspaceData.books[firstIndex].id)),
                        folderId, order, "duplicate")>>
              ELSE <<>>)
             \o <<InvalidOrderIssue(snap, index, FileIdAt(snap, matchingById), folderId, order,
                                    "duplicate")>>
        ELSE <<>>
  IN [issues |-> acc.issues \o mismatch \o missingSheet \o missingFolder \o invalidOrder,
      duplicateTracker |->
        IF IsFinite(order) /\ ~seen THEN MapSet(acc.duplicateTracker, orderKey, index)
        ELSE acc.duplicateTracker,
      flaggedDuplicates |->
        IF seen THEN acc.flaggedDuplicates \cup {orderKey} ELSE acc.flaggedDuplicates]

RECURSIVE DetectFrom(_, _, _)
DetectFrom(snap, acc, index) ==
  IF index > Len(snap.workspace.data.books) THEN acc
  ELSE DetectFrom(snap, DetectOne(snap, acc, index), index + 1)

detectIntegrityIssues(snap) ==
  DetectFrom(snap, [issues |-> <<>>, duplicateTracker |-> EmptyMap, flaggedDuplicates |-> {}],
             1).issues

\* registerReplacement inside applyIntegrityRepairs
registerReplacement(acc, fromId, toId) ==
  [acc EXCEPT !.replacements = MapSet(@, fromId, toId),
              !.bookIdReplacements = MapSet(@, fromId, toId)]

\* variant of the useFile branch that keeps the id of the reference
RepairUseFile_keepsId(acc, issue, now) ==
  LET details == issue.details
      originalId == details.workspaceId
      newId == details.fileId
      workspaceBooks == acc.snapshot.workspace.data.books
      bookIndex == details.workspaceBookIndex
  IN IF bookIndex > Len(workspaceBooks) THEN acc
     ELSE LET registered == registerReplacement(acc, originalId, newId)
          IN [registered EXCEPT
                !.snapshot.workspace.data.books[bookIndex] = [@ EXCEPT !.updatedAt = now],
                !.workspaceMutated = TRUE,
                !.resolvedIssueIds = Append(@, issue.id)]

\* book-id-mismatch decided useFile
RepairUseFile(acc, issue, now) ==
  LET details == issue.details
      originalId == details.workspaceId
      newId == details.fileId
      workspaceBooks == acc.snapshot.workspace.data.books
      bookIndex == details.workspaceBookIndex
  IN IF bookIndex > Len(workspaceBooks) THEN acc
     ELSE LET previousId == workspaceBooks[bookIndex].id
              registered == registerReplacement(acc, originalId, newId)
          IN [registered EXCEPT
                !.snapshot.workspace.data.books[bookIndex] =
                   [@ EXCEPT !.id = newId, !.updatedAt = now],
                !.snapshot.workspace.data.workspace.settings.recentBookIds =
                   replaceIdInList(@, previousId, newId),
                !.workspaceMutated = TRUE,
                !.resolvedIssueIds = Append(@, issue.id)]

\* book-id-mismatch decided useWorkspace
RepairUseWorkspace(acc, issue, now) ==
  LET details == issue.details
      workspaceId == resolveCurrentBookId(details.workspaceId, acc.replacements)
      fileId == details.fileId
      HasPath(entry) == entry.filePath = details.filePath
      byPath == FindIndex(acc.snapshot.books, HasPath)
      targetEntry == IF byPath # 0 THEN byPath ELSE BookIndexById(acc.snapshot.books, fileId)
  IN IF targetEntry = 0 THEN acc
     ELSE [acc EXCEPT
             !.snapshot.books[targetEntry].data.book =
                [@ EXCEPT !.id = workspaceId, !.updatedAt = now],
             !.replacements = MapSet(@, fileId, workspaceId),
             !.booksMutated = TRUE,
             !.resolvedIssueIds = Append(@, issue.id)]

\* what { ...workspaceBooks[bookIndex] } spreads when bookIndex lies past the
\* end of the list: no field at all (an undefined order subtracts to NaN)
UNDEFINED_REFERENCE ==
  [id |-> Null, name |-> Null, folderId |-> Null, order |-> NOT_A_NUMBER,
   dataPath |-> <<>>, activeSheetId |-> Null, updatedAt |-> Null]

ReferenceAt(books, bookIndex) ==
  IF bookIndex <= Len(books) THEN books[bookIndex] ELSE UNDEFINED_REFERENCE

\* workspaceBooks[bookIndex] = value: an assignment past the end of the list
\* lengthens it, the positions skipped being left as holes
AssignReference(books, bookIndex, value) ==
  [i \in 1..(IF bookIndex > Len(books) THEN bookIndex ELSE Len(books)) |->
     IF i = bookIndex THEN value
     ELSE IF i <= Len(books) THEN books[i]
     ELSE UNDEFINED_REFERENCE]

\* missing-active-sheet decided reset
RepairResetActiveSheet(acc, issue, now) ==
  LET details == issue.details
      currentId == resolveCurrentBookId(issue.bookRefId, acc.replacements)
      bookIndex == details.workspaceBookIndex
      availableSheetIds == details.availableSheetIds
      nextActiveSheetId == IF availableSheetIds = <<>> THEN Null ELSE availableSheetIds[1]
  IN [acc EXCEPT
        !.snapshot.workspace.data.books =
           AssignReference(@, bookIndex,
                           [ReferenceAt(@, bookIndex) EXCEPT
                              !.activeSheetId = nextActiveSheetId, !.updatedAt = now]),
        !.sheetSelectionUpdates = MapSet(@, currentId, nextActiveSheetId),
        !.workspaceMutated = TRUE,
        !.resolvedIssueIds = Append(@, issue.id)]

\* missing-folder-reference decided reset
RepairResetFolder(acc, issue, now) ==
  LET bookIndex == issue.details.workspaceBookIndex
  IN [acc EXCEPT
        !.snapshot.workspace.data.books =
           AssignReference(@, bookIndex,
                           [ReferenceAt(@, bookIndex) EXCEPT
                              !.folderId = Null, !.updatedAt = now]),
        !.workspaceMutated = TRUE,
        !.resolvedIssueIds = Append(@, issue.id)]

\* one turn of issues.forEach in applyIntegrityRepairs
RepairOne(acc, issue, decisions, now) ==
  LET decision == IF issue.id \in DOMAIN decisions THEN decisions[issue.id] ELSE Null
  IN IF decision = Null \/ decision = "defer" THEN acc
     ELSE IF issue.type = "book-id-mismatch"
     THEN (IF decision = "useFile" THEN RepairUseFile(acc, issue, now)
           ELSE IF decision = "useWorkspace" THEN RepairUseWorkspace(acc, issue, now)
           ELSE acc)
     ELSE IF issue.type = "missing-active-sheet" /\ decision = "reset"
     THEN RepairResetActiveSheet(acc, issue, now)
     ELSE IF issue.type = "missing-folder-reference" /\ decision = "reset"
     THEN RepairResetFolder(acc, issue, now)
     ELSE IF issue.type = "invalid-order" /\ decision = "normalize"
     THEN [acc EXCEPT !.shouldNormalizeOrders = TRUE,
                      !.resolvedIssueIds = Append(@, issue.id)]
     ELSE acc

RECURSIVE RepairFrom(_, _, _, _, _)
RepairFrom(acc, issues, decisions, now, k) ==
  IF k > Len(issues) THEN acc
  ELSE RepairFrom(RepairOne(acc, issues[k], decisions, now), issues, decisions, now, k + 1)

\* the locals of applyIntegrityRepairs before issues.forEach
RepairStart(snap) ==
  [snapshot |-> cloneSnapshot(snap), resolvedIssueIds |-> <<>>,
   replacements |-> EmptyMap, bookIdReplacements |-> EmptyMap,
   sheetSelectionUpdates |-> EmptyMap, shouldNormalizeOrders |-> FALSE,
   workspaceMutated |-> FALSE, booksMutated |-> FALSE]

\* the locals of applyIntegrityRepairs after issues.forEach
RepairLocals(snap, issues, decisions, now) ==
  RepairFrom(RepairStart(snap), issues, decisions, now, 1)

applyIntegrityRepairs(snap, issues, decisions, now) ==
  LET done == RepairLocals(snap, issues, decisions, now)
      normalized ==
        IF done.shouldNormalizeOrders
        THEN [done EXCEPT !.snapshot.workspace.data.books = normalizeBookOrders(@),
                          !.workspaceMutated = TRUE]
        ELSE done
      stamped ==
        IF normalized.workspaceMutated
        THEN [normalized EXCEPT !.snapshot.workspace.data.workspace.updatedAt = now]
        ELSE normalized
  IN [snapshot |-> stamped.snapshot,
      resolvedIssueIds |-> stamped.resolvedIssueIds,
      bookIdReplacements |-> stamped.bookIdReplacements,
      sheetSelectionUpdates |-> stamped.sheetSelectionUpdates]

----------------------------------------------------------------------------
(* SpecRepair: one run of the integrity engine on a loaded snapshot:        *)
(* detectIntegrityIssues, applyIntegrityRepairs with one decision for every *)
(* issue, detectIntegrityIssues again on the repaired snapshot.             *)

MaxRefs == 2
MaxSiblings == 3

REF_IDS == {"book-001", "book-002", "book-xyz"}

DataPathOf(id) == <<"books", "/", id \o ".json">>

otherBook ==
  [book |-> [id |-> "book-002", name |-> "Other", updatedAt |-> 0],
   sheets |-> <<[id |-> "sheet-002", name |-> "Sheet1",
                 gridSize |-> [rows |-> DEFAULT_ROWS, cols |-> DEFAULT_COLS],
                 rows |-> EmptyMap]>>]

sampleDocument ==
  [filePath |-> <<"/", "books", "/", "book-001.json">>, data |-> sampleBook]

otherDocument ==
  [filePath |-> <<"C:", "\\", "ws", "\\", "books", "\\", "book-002.json">>, data |-> otherBook]

DocumentLists ==
  {<<sampleDocument>>,
   <<sampleDocument, otherDocument>>,
   <<sampleDocument, [otherDocument EXCEPT !.data.sheets = <<>>]>>}

BookReferenceOf(id, dataPath, activeSheetId, folderId, order) ==
  [id |-> id, name |-> id \o ".json", folderId |-> folderId, order |-> order,
   dataPath |-> dataPath, activeSheetId |-> activeSheetId, updatedAt |-> 0]

DistinctIds(refs) ==
  \A i, j \in 1..Len(refs) : refs[i].id = refs[j].id => i = j

\* references that differ in id, dataPath and activeSheetId; orders are the
\* list positions and every reference is in the root group
IdentityReferenceLists ==
  LET choices == [id : REF_IDS, dataPath : {DataPathOf("book-001"), DataPathOf("book-002")},
                  activeSheetId : {Null, "sheet-001", "missing-sheet"}]
  IN {[i \in 1..Len(q) |->
         BookReferenceOf(q[i].id, q[i].dataPath, q[i].activeSheetId, Null, i - 1)] :
      q \in {p \in SeqsUpTo(choices, MaxRefs) : p # <<>> /\ DistinctIds(p)}}

\* references that differ in id, folderId and order; each points at the
\* document named after its id and declares no active sheet
SiblingReferenceLists ==
  LET choices == [id : REF_IDS, folderId : {Null, "folder-gone"},
                  order : {0, 1, NOT_A_NUMBER}]
  IN {[i \in 1..Len(q) |->
         BookReferenceOf(q[i].id, DataPathOf(q[i].id), Null, q[i].folderId, q[i].order)] :
      q \in {p \in SeqsUpTo(choices, MaxSiblings) : p # <<>> /\ DistinctIds(p)}}

SnapshotOf(refs, documents) ==
  [workspace |->
     [filePath |-> <<"/", "workspace.json">>,
      data |-> [sampleWorkspace EXCEPT
                  !.books = refs,
                  !.workspace.settings.recentBookIds = <<refs[1].id>>]],
   books |-> documents]

RepairSnapshots ==
  {SnapshotOf(refs, documents) : refs \in IdentityReferenceLists, documents \in DocumentLists}
  \cup {SnapshotOf(refs, <<sampleDocument, otherDocument>>) : refs \in SiblingReferenceLists}

\* every way to give each issue one of its supported decisions
RECURSIVE DecisionMapsFrom(_, _)
DecisionMapsFrom(issues, k) ==
  IF k > Len(issues) THEN {EmptyMap}
  ELSE {MapSet(m, issues[k].id, d) :
          m \in DecisionMapsFrom(issues, k + 1), d \in issues[k].supportedDecisions}

DecisionMaps(issues) == DecisionMapsFrom(issues, 1)

InitRepair ==
  /\ \E snap \in RepairSnapshots :
       LET loaded == loadWorkspace([snapshot |-> NullSnapshot, selectedBookId |-> Null,
                                    selectedSheetId |-> Null, history |-> <<>>,
                                    future |-> <<>>], snap).st
       IN /\ snapshot = loaded.snapshot
          /\ selectedBookId = loaded.selectedBookId
          /\ selectedSheetId = loaded.selectedSheetId
  /\ history = <<>>
  /\ future = <<>>
  /\ clock = 1
  /\ uid = 1
  /\ lastCall = [op |-> "loadWorkspace", ret |-> "ok"]
  /\ integ = NoInteg
  /\ grid = NoGrid
  /\ app = NoApp

DetectIntegrity ==
  /\ integ.stage = "idle"
  /\ integ' = [stage |-> "detected", issues |-> detectIntegrityIssues(snapshot)]
  /\ lastCall' = [op |-> "detectIntegrityIssues", ret |-> "ok"]
  /\ UNCHANGED <<storeVars, clock, uid, grid, app>>

\* a second detection pass on the snapshot, before any repair
DetectAgain ==
  /\ integ.stage = "detected"
  /\ "again" \notin DOMAIN integ
  /\ integ' = [stage |-> "detected", issues |-> integ.issues,
               again |-> detectIntegrityIssues(snapshot)]
  /\ lastCall' = [op |-> "detectIntegrityIssues", ret |-> "ok"]
  /\ UNCHANGED <<storeVars, clock, uid, grid, app>>

RepairIntegrity ==
  /\ integ.stage \in {"detected", "stale"}
  /\ \E decisions \in DecisionMaps(integ.issues) :
       integ' = [stage |-> "repaired", issues |-> integ.issues, decisions |-> decisions,
                 result |-> applyIntegrityRepairs(snapshot, integ.issues, decisions, clock)]
  /\ lastCall' = [op |-> "applyIntegrityRepairs", ret |-> "ok"]
  /\ UNCHANGED <<storeVars, clock, uid, grid, app>>

RecheckIntegrity ==
  /\ integ.stage = "repaired"
  /\ integ' = [integ EXCEPT !.stage = "rechecked",
                            !.issues = detectIntegrityIssues(integ.result.snapshot)]
  /\ lastCall' = [op |-> "detectIntegrityIssues", ret |-> "ok"]
  /\ UNCHANGED <<storeVars, clock, uid, grid, app>>

NextRepair ==
  \/ DetectIntegrity
  \/ DetectAgain
  \/ RepairIntegrity
  \/ RecheckIntegrity

SpecRepair == InitRepair /\ [][NextRepair]_vars

DecidedAs(type, decision) ==
  {k \in 1..Len(integ.issues) :
     /\ integ.issues[k].type = type
     /\ integ.decisions[integ.issues[k].id] = decision}

IssuesOfType(issues, type) ==
  LET IsType(issue) == issue.type = type IN SelectSeq(issues, IsType)

\* C8: when a book-id-mismatch is the only issue detected and it is decided
\* useFile, the repaired reference carries the id found inside the document
\* its dataPath matches, bookIdReplacements maps the old reference id to
\* that id, the issue is listed as resolved, and detection on the repaired
\* snapshot reports no book-id-mismatch.
C8_UseFileAlignsReference ==
  (/\ integ.stage = "repaired"
   /\ Len(integ.issues) = 1
   /\ DecidedAs("book-id-mismatch", "useFile") = {1}) =>
    LET issue == integ.issues[1]
        index == issue.details.workspaceBookIndex
        oldRef == snapshot.workspace.data.books[index]
        document == resolveByDataPath(snapshot, oldRef.dataPath)
        result == integ.result
    IN /\ document # 0
       /\ result.snapshot.books = snapshot.books
       /\ result.snapshot.workspace.data.books[index].id = snapshot.books[document].data.book.id
       /\ oldRef.id \in DOMAIN result.bookIdReplacements
       /\ result.bookIdReplacements[oldRef.id] = snapshot.books[document].data.book.id
       /\ issue.id \in SeqToSet(result.resolvedIssueIds)
       /\ IssuesOfType(detectIntegrityIssues(result.snapshot), "book-id-mismatch") = <<>>

\* the reference book-xyz of a two-reference workspace was aligned to its document
C8_Witness ==
  /\ integ.stage = "repaired"
  /\ Len(integ.issues) = 1
  /\ DecidedAs("book-id-mismatch", "useFile") = {1}
  /\ Len(snapshot.workspace.data.books) = 2
  /\ integ.issues[1].bookRefId = "book-xyz"
  /\ integ.result.snapshot.workspace.data.books[integ.issues[1].details.workspaceBookIndex].id
       # "book-xyz"
  /\ integ.result.snapshot.workspace.data.workspace.settings.recentBookIds
       # snapshot.workspace.data.workspace.settings.recentBookIds

\* C9: once the normalize pass has run, in every sibling group the orders
\* are exactly 0..n-1, references that had distinct finite orders keep their
\* relative order, and references that shared an order are ranked by
\* ascending id.
C9_NormalizeIsDenseAndOrderPreserving ==
  (integ.stage = "repaired" /\ DecidedAs("invalid-order", "normalize") # {}) =>
    LET before == snapshot.workspace.data.books
        after == integ.result.snapshot.workspace.data.books
        Siblings(i) == {j \in 1..Len(after) : after[j].folderId = after[i].folderId}
    IN \A i \in 1..Len(after) :
         /\ {after[j].order : j \in Siblings(i)} = 0..(Cardinality(Siblings(i)) - 1)
         /\ \A j \in Siblings(i) :
              /\ (/\ IsFinite(before[i].order) /\ IsFinite(before[j].order)
                  /\ before[i].order < before[j].order) => after[i].order < after[j].order
              /\ (/\ StrictEqualOrders(before[i].order, before[j].order)
                  /\ localeCompare(before[i].id, before[j].id) < 0) =>
                    after[i].order < after[j].order

\* C10: a missing-active-sheet issue decided reset sets the activeSheetId of
\* its reference to the first sheet id of the matched document (the one the
\* dataPath matches, else the one with the reference's id), or clears it
\* when that document has no sheets, and records the same value in
\* sheetSelectionUpdates under the current id of the book: the id the
\* reference, or the matched document, has after the batch.
C10_ResetPicksFirstSheet ==
  integ.stage = "repaired" =>
    \A k \in DecidedAs("missing-active-sheet", "reset") :
      LET index == integ.issues[k].details.workspaceBookIndex
          oldRef == snapshot.workspace.data.books[index]
          byPath == resolveByDataPath(snapshot, oldRef.dataPath)
          document == IF byPath # 0 THEN byPath ELSE BookIndexById(snapshot.books, oldRef.id)
          sheetIds == SheetIdsAt(snapshot, document)
          expected == IF sheetIds = <<>> THEN Null ELSE sheetIds[1]
          ref == integ.result.snapshot.workspace.data.books[index]
          updates == integ.result.sheetSelectionUpdates
      IN /\ ref.activeSheetId = expected
         /\ \E key \in {ref.id, integ.result.snapshot.books[document].data.book.id} :
              key \in DOMAIN updates /\ updates[key] = expected

\* C11: a book-id-mismatch decided useWorkspace leaves the id of its
\* reference unchanged and lists the issue as resolved; the document at the
\* issue's file path, unless a later useWorkspace of the batch overwrites it
\* again, carries the id of the reference, and detection on the repaired
\* snapshot reports no book-id-mismatch for that reference.
C11_UseWorkspaceAlignsDocument ==
  integ.stage = "repaired" =>
    \A k \in DecidedAs("book-id-mismatch", "useWorkspace") :
      LET issue == integ.issues[k]
          index == issue.details.workspaceBookIndex
          oldRef == snapshot.workspace.data.books[index]
          result == integ.result
          ref == result.snapshot.workspace.data.books[index]
          HasPath(entry) == entry.filePath = issue.details.filePath
          document == FindIndex(result.snapshot.books, HasPath)
          overwrittenLater ==
            \E later \in DecidedAs("book-id-mismatch", "useWorkspace") :
              later > k /\ integ.issues[later].details.filePath = issue.details.filePath
          remaining == IssuesOfType(detectIntegrityIssues(result.snapshot), "book-id-mismatch")
      IN /\ ref.id = oldRef.id
         /\ issue.id \in SeqToSet(result.resolvedIssueIds)
         /\ ~overwrittenLater =>
              /\ result.snapshot.books[document].data.book.id = ref.id
              /\ \A m \in 1..Len(remaining) : remaining[m].details.workspaceBookIndex # index

\* C12: detection checks the activeSheetId of a reference against the
\* document its dataPath matches, and against the document with the
\* reference's id only when no document matches the path: a
\* missing-active-sheet issue is reported for the reference exactly when its
\* activeSheetId is set and is no sheet of that document, and the issue
\* carries the sheet ids of that document.
C12_ActiveSheetCheckedByPathFirst ==
  integ.stage = "detected" =>
    \A index \in 1..Len(snapshot.workspace.data.books) :
      LET ref == snapshot.workspace.data.books[index]
          byPath == resolveByDataPath(snapshot, ref.dataPath)
          document == IF byPath # 0 THEN byPath ELSE BookIndexById(snapshot.books, ref.id)
          sheetIds == SheetIdsAt(snapshot, document)
          reported == {k \in 1..Len(integ.issues) :
                         /\ integ.issues[k].type = "missing-active-sheet"
                         /\ integ.issues[k].details.workspaceBookIndex = index}
      IN /\ (reported # {}) <=>
              (document # 0 /\ ref.activeSheetId # Null
               /\ ref.activeSheetId \notin SeqToSet(sheetIds))
         /\ \A k \in reported : integ.issues[k].details.availableSheetIds = sheetIds

\* C13: of the references that share a (folderId, finite order) key with
\* another reference, each gets exactly one invalid-order issue, of reason
\* duplicate, the first of them included however many share the key; a
\* reference whose finite order is shared with no reference of its group
\* gets none, and a reference with a non-finite order gets exactly one, of
\* reason non-finite.
C13_OneOrderIssuePerOffender ==
  integ.stage = "detected" =>
    LET refs == snapshot.workspace.data.books
        Sharing(i) == {j \in 1..Len(refs) :
                         /\ refs[j].folderId = refs[i].folderId
                         /\ StrictEqualOrders(refs[j].order, refs[i].order)}
        Reported(i) == {k \in 1..Len(integ.issues) :
                          /\ integ.issues[k].type = "invalid-order"
                          /\ integ.issues[k].details.workspaceBookIndex = i}
        Expected(i) == IF ~IsFinite(refs[i].order) THEN "non-finite"
                       ELSE IF Cardinality(Sharing(i)) >= 2 THEN "duplicate"
                       ELSE "none"
    IN \A i \in 1..Len(refs) :
         IF Expected(i) = "none" THEN Reported(i) = {}
         ELSE /\ Cardinality(Reported(i)) = 1
              /\ \A k \in Reported(i) :
                   /\ integ.issues[k].details.reason = Expected(i)
                   /\ integ.issues[k].bookRefId = refs[i].id
                   /\ integ.issues[k].id = "invalid-order:" \o refs[i].id

\* three references share one key and three duplicate issues were reported,
\* the first of them for the first reference
C13_Witness ==
  /\ integ.stage = "detected"
  /\ Len(snapshot.workspace.data.books) = 3
  /\ \A i \in 1..3 :
       /\ snapshot.workspace.data.books[i].folderId = "folder-gone"
       /\ snapshot.workspace.data.books[i].order = 1
  /\ Len(IssuesOfType(integ.issues, "invalid-order")) = 3
  /\ IssuesOfType(integ.issues, "invalid-order")[1].details.workspaceBookIndex = 1

----------------------------------------------------------------------------
(* SpecStale: the workspace is replaced between detection and repair, so    *)
(* the issues and decisions given to applyIntegrityRepairs are stale: the   *)
(* snapshot repaired has lost its last reference, its last document, or     *)
(* both.                                                                    *)

WithoutLastReference(snap) ==
  [snap EXCEPT !.workspace.data.books = Front(@)]

WithoutLastDocument(snap) ==
  [snap EXCEPT !.books = Front(@)]

ShrunkSnapshots(snap) ==
  {WithoutLastReference(snap), WithoutLastDocument(snap),
   WithoutLastReference(WithoutLastDocument(snap))}

\* loadWorkspace of an edited workspace while the detected issues are pending
ReplaceWorkspace ==
  /\ integ.stage = "detected"
  /\ \E snap \in ShrunkSnapshots(snapshot) :
       LET loaded == loadWorkspace(Store, snap).st
       IN /\ snapshot' = loaded.snapshot
          /\ selectedBookId' = loaded.selectedBookId
          /\ selectedSheetId' = loaded.selectedSheetId
          /\ history' = loaded.history
          /\ future' = loaded.future
  /\ integ' = [integ EXCEPT !.stage = "stale"]
  /\ lastCall' = [op |-> "loadWorkspace", ret |-> "ok"]
  /\ UNCHANGED <<clock, uid, grid, app>>

NextStale ==
  \/ DetectIntegrity
  \/ ReplaceWorkspace
  \/ RepairIntegrity

SpecStale == InitRepair /\ [][NextStale]_vars

\* the decided issues whose target is not in the snapshot being repaired
Unresolvable ==
  {k \in 1..Len(integ.issues) :
     LET issue == integ.issues[k]
         decision == integ.decisions[issue.id]
         HasPath(entry) == entry.filePath = issue.details.filePath
     IN \/ /\ decision \in {"useFile", "reset"}
           /\ issue.details.workspaceBookIndex > Len(snapshot.workspace.data.books)
        \/ /\ decision = "useWorkspace"
           /\ FindIndex(snapshot.books, HasPath) = 0
           /\ BookIndexById(snapshot.books, issue.details.fileId) = 0}

Decided ==
  {k \in 1..Len(integ.issues) : integ.decisions[integ.issues[k].id] # "defer"}

\* C14: a decided issue whose target no longer resolves in the snapshot
\* given to the repair (workspaceBookIndex past the end of the reference
\* list, or target document absent) is skipped: it is not listed as
\* resolved, no reference is added to the list, and when no other issue is
\* decided the references and documents returned equal the input's.
C14_StaleDecisionIsSkipped ==
  integ.stage = "repaired" =>
    /\ \A k \in Unresolvable :
         integ.issues[k].id \notin SeqToSet(integ.result.resolvedIssueIds)
    /\ Unresolvable # {} =>
         Len(integ.result.snapshot.workspace.data.books)
           = Len(snapshot.workspace.data.books)
    /\ (Unresolvable # {} /\ Decided \subseteq Unresolvable) =>
         /\ integ.result.snapshot.workspace.data.books = snapshot.workspace.data.books
         /\ integ.result.snapshot.books = snapshot.books

\* C15: a reference of which the repair changes the id, the activeSheetId,
\* the folderId or the order carries the time stamp of the repair call as
\* its updatedAt; a reference none of whose fields is changed keeps the
\* updatedAt it had.
C15_TouchedReferencesAreStamped ==
  integ.stage = "repaired" =>
    \A i \in 1..Len(snapshot.workspace.data.books) :
      LET before == snapshot.workspace.data.books[i]
          after == integ.result.snapshot.workspace.data.books[i]
          changed == \/ after.id # before.id
                     \/ after.activeSheetId # before.activeSheetId
                     \/ after.folderId # before.folderId
                     \/ after.order # before.order
      IN IF changed THEN after.updatedAt = clock
         ELSE after.updatedAt = before.updatedAt

RECURSIVE Follow(_, _, _)
Follow(replacements, id, n) ==
  IF n = 0 \/ id \notin DOMAIN replacements THEN id
  ELSE Follow(replacements, replacements[id], n - 1)

\* the substitution map applyIntegrityRepairs has built by the end of the batch
FinalReplacements ==
  RepairLocals(snapshot, integ.issues, integ.decisions, clock).replacements

\* C17: applyIntegrityRepairs terminates for every issue list and decision
\* map, cyclic substitution maps included: resolving the current id of a
\* book visits each id at most once, so it ends within as many substitutions
\* as the map has keys, on an id that has no substitution or, in a cycle, on
\* the id at which the cycle closes.
C17_ResolutionStopsOnCycles ==
  integ.stage = "repaired" =>
    LET m == FinalReplacements
        n == Cardinality(DOMAIN m)
    IN \A id \in REF_IDS :
         LET r == resolveCurrentBookId(id, m)
         IN /\ r \in {Follow(m, id, steps) : steps \in 0..n}
            /\ \/ r \notin DOMAIN m
               \/ \E steps \in 1..n : Follow(m, r, steps) = r

\* the batch built the cycle book-001 -> book-002 -> book-001 and resolved
\* an id through it for a later issue
C17_Witness ==
  /\ integ.stage = "repaired"
  /\ DOMAIN FinalReplacements = {"book-001", "book-002"}
  /\ FinalReplacements["book-001"] = "book-002"
  /\ FinalReplacements["book-002"] = "book-001"
  /\ DecidedAs("missing-active-sheet", "reset") # {}
  /\ Len(integ.result.resolvedIssueIds) >= 3

\* C18: createBook puts the new reference at the end of the root group: it
\* is the last reference of the list, its folderId is null and its order is
\* greater than the (finite) order of every other root reference, so no two
\* root references share an order because of it.
C18_NewBookIsLastOfRootGroup ==
  snapshot # NullSnapshot =>
    LET created == createBook(Store, clock, uid)
        refs == created.st.snapshot.workspace.data.books
        new == Last(refs)
    IN created.ret = "ok" =>
         /\ Len(refs) = Len(snapshot.workspace.data.books) + 1
         /\ new.folderId = Null
         /\ \A i \in 1..(Len(refs) - 1) :
              (refs[i].folderId = Null /\ IsFinite(refs[i].order)) =>
                refs[i].order < new.order

----------------------------------------------------------------------------
(* Recently used lists *)

RecentBookIdsOf(st) == st.snapshot.workspace.data.workspace.settings.recentBookIds
RecentSheetIdsOf(st) == st.snapshot.workspace.data.workspace.settings.recentSheetIds

Occurrences(list, id) == Cardinality({i \in 1..Len(list) : list[i] = id})

LeadsOnce(list, id) == Len(list) > 0 /\ list[1] = id /\ Occurrences(list, id) = 1

\* C19: after every effective mutating operation that touches a book
\* (createBook, createSheet, applyCellUpdates, renameBook) the touched book id
\* is the first entry of recentBookIds and occurs there exactly once; after
\* createBook, createSheet and applyCellUpdates the touched sheet id is the
\* first entry of recentSheetIds and occurs there exactly once.
C19_TouchedIdsLeadRecentLists ==
  snapshot # NullSnapshot =>
    /\ LET r == createBook(Store, clock, uid)
       IN r.ret = "ok" =>
            /\ LeadsOnce(RecentBookIdsOf(r.st), generateId("book", uid))
            /\ LeadsOnce(RecentSheetIdsOf(r.st), generateId("sheet", uid + 1))
    /\ \A bookId \in BookIdInputs :
         LET r == createSheet(Store, bookId, clock, uid)
         IN r.ret = "ok" =>
              /\ LeadsOnce(RecentBookIdsOf(r.st), bookId)
              /\ LeadsOnce(RecentSheetIdsOf(r.st), generateId("sheet", uid))
    /\ \A updates \in Batches :
         LET r == applyCellUpdates(Store, updates, clock)
         IN r.ret = "ok" =>
              /\ LeadsOnce(RecentBookIdsOf(r.st), selectedBookId)
              /\ LeadsOnce(RecentSheetIdsOf(r.st), selectedSheetId)
    /\ \A bookId \in BookIdInputs, nextName \in NameInputs :
         LET r == renameBook(Store, bookId, nextName, clock)
         IN r.ret = "ok" => LeadsOnce(RecentBookIdsOf(r.st), bookId)

----------------------------------------------------------------------------
(* SpecRecent: editing sessions on workspaces whose recently used lists are *)
(* empty, short, one short of the limit, or full.                           *)

MaxRecentOps == 2    \* effective mutations explored by SpecRecent

\* n distinct ids that stand for books or sheets used earlier
EarlierIds(prefix, n) == [i \in 1..n |-> prefix \o "-r" \o ToString(i)]

\* lists of at most RECENT_LIMIT pairwise distinct ids, with id absent, alone,
\* in the middle of an almost full list, and last of a full list
RecentListsAround(prefix, id) ==
  <<<<>>,
    <<id>>,
    EarlierIds(prefix, RECENT_LIMIT - 1),
    EarlierIds(prefix, RECENT_LIMIT),
    SubSeq(EarlierIds(prefix, RECENT_LIMIT - 2), 1, 9) \o <<id>>
      \o SubSeq(EarlierIds(prefix, RECENT_LIMIT - 2), 10, RECENT_LIMIT - 2),
    EarlierIds(prefix, RECENT_LIMIT - 1) \o <<id>>>>

WithRecentLists(snap, recentBookIds, recentSheetIds) ==
  [snap EXCEPT
     !.workspace.data.workspace.settings.recentBookIds = recentBookIds,
     !.workspace.data.workspace.settings.recentSheetIds = recentSheetIds]

RecentSnapshots ==
  {WithRecentLists(sampleSnapshot, RecentListsAround("book", "book-001")[k],
                   RecentListsAround("sheet", "sheet-001")[k]) : k \in 1..6}

InitRecent ==
  /\ snapshot \in RecentSnapshots
  /\ selectedBookId = deriveInitialSelection(snapshot).bookId
  /\ selectedSheetId = deriveInitialSelection(snapshot).sheetId
  /\ history = <<>>
  /\ future = <<>>
  /\ clock = 1
  /\ uid = 1
  /\ lastCall = NoCall
  /\ integ = NoInteg
  /\ grid = NoGrid
  /\ app = NoApp

\* a commit of one cell of the selected sheet
CommitCell ==
  \E v \in {"5", "x"} :
    Call("applyCellUpdates",
         applyCellUpdates(Store, <<[rowKey |-> "1", columnKey |-> "A", value |-> v]>>, clock),
         1, 0)

NextRecent ==
  \/ (clock <= MaxRecentOps /\ CreateBook)
  \/ (clock <= MaxRecentOps /\ CreateSheet)
  \/ (clock <= MaxRecentOps /\ CommitCell)
  \/ (clock <= MaxRecentOps /\ RenameBook)
  \/ Undo
  \/ Redo

SpecRecent == InitRecent /\ [][NextRecent]_vars

NoDuplicate(list) == \A i, j \in 1..Len(list) : list[i] = list[j] => i = j

RECURSIVE Restrict(_, _)
Restrict(list, ids) ==
  IF list = <<>> THEN <<>>
  ELSE IF Head(list) \in ids THEN <<Head(list)>> \o Restrict(Tail(list), ids)
  ELSE Restrict(Tail(list), ids)

\* the ids that two lists share, one id apart, come in the same order in both
SameOrderButOne(before, after) ==
  \E touched \in SeqToSet(before) \cup SeqToSet(after) \cup {Null} :
    LET shared == (SeqToSet(before) \cap SeqToSet(after)) \ {touched}
    IN Restrict(before, shared) = Restrict(after, shared)

WithinLimit(list) == Len(list) <= RECENT_LIMIT /\ NoDuplicate(list)

\* C20: from a workspace whose recentBookIds and recentSheetIds each hold at
\* most 20 pairwise distinct ids, every store operation (createBook,
\* createSheet, applyCellUpdates, renameBook, undo, redo) leaves both lists
\* with at most 20 entries and no duplicate, and the ids other than the one
\* the operation touched keep their relative order.
C20_RecentListsStayBoundedAndOrdered ==
  [][/\ WithinLimit(RecentBookIdsOf(Store)')
     /\ WithinLimit(RecentSheetIdsOf(Store)')
     /\ SameOrderButOne(RecentBookIdsOf(Store), RecentBookIdsOf(Store)')
     /\ SameOrderButOne(RecentSheetIdsOf(Store), RecentSheetIdsOf(Store)')]_vars

\* a full list has lost its last id to a newly created book and sheet, and the
\* creation has been undone and redone
C20_Witness ==
  /\ lastCall = [op |-> "redo", ret |-> "ok"]
  /\ Len(RecentBookIdsOf(Store)) = RECENT_LIMIT
  /\ Len(RecentSheetIdsOf(Store)) = RECENT_LIMIT
  /\ RecentBookIdsOf(Store)[1] = generateId("book", 1)
  /\ RecentSheetIdsOf(Store)[1] = generateId("sheet", 2)
  /\ RecentBookIdsOf(Store)[RECENT_LIMIT] = EarlierIds("book", RECENT_LIMIT)[RECENT_LIMIT - 1]
  /\ "book-001" \notin SeqToSet(RecentBookIdsOf(Store))

----------------------------------------------------------------------------
(* SpecNames: workspaces whose books and sheets already carry default       *)
(* names, with and without gaps in the numbering.                           *)

MaxNamed == 3        \* books, and sheets per book, of a workspace of SpecNames
MaxNameOps == 2      \* effective mutations explored by SpecNames
MaxSuffix == 3       \* largest " (n)" suffix among the names held at the start

\* 0 is a name the user chose, 1 the base name, n >= 2 the base name with " (n)"
NameOf(base, n) ==
  IF n = 0 THEN "Renamed"
  ELSE IF n = 1 THEN base
  ELSE base \o " (" \o ToString(n) \o ")"

NameChoices == UNION {[1..len -> 0..MaxSuffix] : len \in 1..MaxNamed}

NamedSheets(choice) ==
  [j \in 1..Len(choice) |->
     [id |-> "sheet-n" \o ToString(j), name |-> NameOf(SHEET_BASE_NAME, choice[j]),
      gridSize |-> [rows |-> DEFAULT_ROWS, cols |-> DEFAULT_COLS], rows |-> EmptyMap]]

NamedSnapshot(choice) ==
  [workspace |->
     [filePath |-> <<"ws", "/", "workspace.json">>,
      data |-> [workspace |-> [updatedAt |-> 0,
                               settings |-> [recentBookIds |-> <<>>, recentSheetIds |-> <<>>]],
                folders |-> <<>>,
                books |-> [i \in 1..Len(choice) |->
                             [id |-> "book-n" \o ToString(i),
                              name |-> "book-n" \o ToString(i) \o ".json",
                              folderId |-> Null, order |-> i - 1,
                              dataPath |-> <<"books", "/", "book-n" \o ToString(i) \o ".json">>,
                              activeSheetId |-> "sheet-n1", updatedAt |-> 0]]]],
   books |-> [i \in 1..Len(choice) |->
                [filePath |-> <<"ws", "/", "books", "/", "book-n" \o ToString(i) \o ".json">>,
                 data |-> [book |-> [id |-> "book-n" \o ToString(i),
                                     name |-> NameOf(BOOK_BASE_NAME, choice[i]),
                                     updatedAt |-> 0],
                           sheets |-> NamedSheets(choice)]]]]

InitNames ==
  /\ \E choice \in NameChoices : snapshot = NamedSnapshot(choice)
  /\ selectedBookId = deriveInitialSelection(snapshot).bookId
  /\ selectedSheetId = deriveInitialSelection(snapshot).sheetId
  /\ history = <<>>
  /\ future = <<>>
  /\ clock = 1
  /\ uid = 1
  /\ lastCall = NoCall
  /\ integ = NoInteg
  /\ grid = NoGrid
  /\ app = NoApp

NextNames ==
  \/ (clock <= MaxNameOps /\ CreateBook)
  \/ (clock <= MaxNameOps /\ CreateSheet)

SpecNames == InitNames /\ [][NextNames]_vars

BookNamesOf(snap) == {snap.books[i].data.book.name : i \in 1..Len(snap.books)}
SheetNamesOf(book) == {book.sheets[j].name : j \in 1..Len(book.sheets)}

\* name is base when base is free, otherwise base with the smallest free " (n)", n >= 2
IsFirstFreeName(name, base, existing) ==
  /\ name \notin existing
  /\ \/ name = base
     \/ /\ base \in existing
        /\ \E n \in 2..(Cardinality(existing) + 1) :
             /\ name = NameOf(base, n)
             /\ \A m \in 2..(n - 1) : NameOf(base, m) \in existing

\* C21: the name createBook gives the new book is held by no book of the
\* snapshot, and the name createSheet gives the new sheet is held by no sheet
\* of that book; it is the base name when free, otherwise the base name with
\* " (n)" for the smallest free n >= 2.
C21_DefaultNamesAreFirstFree ==
  /\ LET r == createBook(Store, clock, uid)
     IN r.ret = "ok" =>
          IsFirstFreeName(Last(r.st.snapshot.books).data.book.name, BOOK_BASE_NAME,
                          BookNamesOf(snapshot))
  /\ \A bookId \in BookIdInputs :
       LET r == createSheet(Store, bookId, clock, uid)
           bookIndex == BookIndexById(snapshot.books, bookId)
       IN r.ret = "ok" =>
            IsFirstFreeName(Last(r.st.snapshot.books[bookIndex].data.sheets).name,
                            SHEET_BASE_NAME, SheetNamesOf(snapshot.books[bookIndex].data))

\* the numbering has a gap that a created book and a created sheet have filled:
\* the base name and " (3)" were taken, and " (2)" was given to both
C21_Witness ==
  /\ lastCall = [op |-> "createSheet", ret |-> "ok"]
  /\ Len(snapshot.books) = 3
  /\ snapshot.books[1].data.book.name = BOOK_BASE_NAME
  /\ snapshot.books[2].data.book.name = NameOf(BOOK_BASE_NAME, 3)
  /\ snapshot.books[3].data.book.name = NameOf(BOOK_BASE_NAME, 2)
  /\ Len(snapshot.books[1].data.sheets) = 3
  /\ snapshot.books[1].data.sheets[2].name = NameOf(SHEET_BASE_NAME, 3)
  /\ snapshot.books[1].data.sheets[3].name = NameOf(SHEET_BASE_NAME, 2)

\* C22: createBook adds one document and one reference, both with the same
\* newly generated id; the new document has exactly one sheet, of nominal size
\* 100 by 26 and without cells; the new reference's activeSheetId is that
\* sheet's id; the selection becomes the new book and that sheet; every
\* reference and document held before is unchanged.
C22_CreateBookAddsOneBook ==
  snapshot # NullSnapshot =>
    LET r == createBook(Store, clock, uid)
        docs == r.st.snapshot.books
        refs == r.st.snapshot.workspace.data.books
        newDoc == Last(docs).data
        newRef == Last(refs)
    IN r.ret = "ok" =>
         /\ Len(docs) = Len(snapshot.books) + 1
         /\ Len(refs) = Len(snapshot.workspace.data.books) + 1
         /\ newDoc.book.id = newRef.id
         /\ newDoc.book.id \notin BookIdsOf(snapshot)
         /\ \A i \in 1..Len(snapshot.workspace.data.books) :
              snapshot.workspace.data.books[i].id # newRef.id
         /\ Len(newDoc.sheets) = 1
         /\ newDoc.sheets[1].gridSize = [rows |-> 100, cols |-> 26]
         /\ DOMAIN newDoc.sheets[1].rows = {}
         /\ newRef.activeSheetId = newDoc.sheets[1].id
         /\ r.st.selectedBookId = newDoc.book.id
         /\ r.st.selectedSheetId = newDoc.sheets[1].id
         /\ Front(docs) = snapshot.books
         /\ Front(refs) = snapshot.workspace.data.books

\* createBook has acted on a workspace of two named books
C22_Witness ==
  /\ lastCall = [op |-> "createBook", ret |-> "ok"]
  /\ Len(snapshot.books) = 3
  /\ Len(snapshot.workspace.data.books) = 3
  /\ selectedBookId = Last(snapshot.books).data.book.id
  /\ selectedBookId = Last(snapshot.workspace.data.books).id
  /\ selectedSheetId = Last(snapshot.workspace.data.books).activeSheetId
  /\ Len(history) = 1
  /\ Last(snapshot.books).data.sheets[1].rows = EmptyMap

----------------------------------------------------------------------------
(* SpecCells: commits that fill and clear the two cells of row 1 of the     *)
(* sample sheet, with undo and redo.                                        *)

MaxCellOps == 3      \* effective mutations explored by SpecCells

ClearOrFill ==
  {[rowKey |-> "1", columnKey |-> c, value |-> v] : c \in {"A", "C"}, v \in {"", " ", "x"}}

CellBatches == SeqsUpTo(ClearOrFill, MaxBatch)

CommitCells ==
  \E updates \in CellBatches :
    Call("applyCellUpdates", applyCellUpdates(Store, updates, clock), 1, 0)

NextCells ==
  \/ (clock <= MaxCellOps /\ CommitCells)
  \/ Undo
  \/ Redo

SpecCells == InitSample /\ [][NextCells]_vars

\* every row entry of every sheet of the snapshot holds at least one cell
NoEmptyRow(snap) ==
  \A i \in 1..Len(snap.books) : \A j \in 1..Len(snap.books[i].data.sheets) :
    LET rows == snap.books[i].data.sheets[j].rows
    IN \A rowKey \in DOMAIN rows : DOMAIN rows[rowKey] # {}

IsPopulated(rows, rowKey, columnKey) ==
  rowKey \in DOMAIN rows /\ columnKey \in DOMAIN rows[rowKey]

\* C23: committing a raw value that trims to "" to a populated cell removes
\* the cell from its row and leaves the other cells of the row; the row key
\* is removed from rows exactly when no cell remains; no snapshot reached by
\* applyCellUpdates, undo and redo holds a row entry without cells.
C23_ClearedCellsLeaveNoEmptyRow ==
  /\ NoEmptyRow(snapshot)
  /\ \A entry \in SeqToSet(history) \cup SeqToSet(future) : NoEmptyRow(entry.snapshot)
  /\ \A u \in ClearOrFill :
       (Trim(u.value) = "" /\ IsPopulated(SheetRows(Store), u.rowKey, u.columnKey)) =>
         LET r == applyCellUpdates(Store, <<u>>, clock)
             before == SheetRows(Store)
             after == SheetRows(r.st)
             remaining == DOMAIN before[u.rowKey] \ {u.columnKey}
         IN /\ r.ret = "ok"
            /\ ~IsPopulated(after, u.rowKey, u.columnKey)
            /\ (u.rowKey \in DOMAIN after) <=> (remaining # {})
            /\ \A c \in remaining : IsPopulated(after, u.rowKey, c)
                                     /\ after[u.rowKey][c] = before[u.rowKey][c]
            /\ \A k \in DOMAIN before \ {u.rowKey} : k \in DOMAIN after /\ after[k] = before[k]

\* the last cell of row 1 has been cleared and the row entry is gone, while
\* the snapshot before it, with the row, waits in history
C23_Witness ==
  /\ lastCall = [op |-> "applyCellUpdates", ret |-> "ok"]
  /\ "1" \notin DOMAIN SheetRows(Store)
  /\ "2" \in DOMAIN SheetRows(Store)
  /\ history # <<>>
  /\ DOMAIN SheetRows([Store EXCEPT !.snapshot = Last(history).snapshot])["1"] = {"C"}

\* C24: undo() with an empty history stack and redo() with an empty future
\* stack return null and leave the snapshot, the selection, history and
\* future as they were.
C24_EmptyStackIsNoOp ==
  /\ history = <<>> => undo(Store) = Returned(Store, "null")
  /\ future = <<>> => redo(Store) = Returned(Store, "null")

\* undo was called a second time after the only mutation had been undone:
\* history was empty, and the redo entry is still there
C24_Witness ==
  /\ lastCall = [op |-> "undo", ret |-> "null"]
  /\ snapshot # NullSnapshot
  /\ history = <<>>
  /\ Len(future) = 1
  /\ selectedBookId # Null

----------------------------------------------------------------------------
(* components/SheetGrid.tsx: column labels.  A label is a sequence of       *)
(* characters; a character code is the position in ALPHABET, so that        *)
(* String.fromCharCode(n + 65) is ALPHABET[n + 1].                          *)

ALPHABET ==
  <<"A", "B", "C", "D", "E", "F", "G", "H", "I", "J", "K", "L", "M",
    "N", "O", "P", "Q", "R", "S", "T", "U", "V", "W", "X", "Y", "Z">>

\* characters a label may be given besides A..Z: lower-case letters and a digit
LOWER_CASE == <<"a", "z">>
OTHER_CHARS == {"1"}

\* String.prototype.toUpperCase on one character
toUpperCase(ch) ==
  IF ch = "a" THEN "A" ELSE IF ch = "z" THEN "Z" ELSE ch

\* normalized.charCodeAt(i) - 65; a character outside A..Z gives a code outside 0..25
CodeOf(ch) ==
  IF \E n \in 1..26 : ALPHABET[n] = ch
  THEN (CHOOSE n \in 1..26 : ALPHABET[n] = ch) - 1
  ELSE -1

\* the while loop of toColumnLabel
RECURSIVE ToColumnLabelLoop(_, _)
ToColumnLabelLoop(idx, label) ==
  IF idx >= 0
  THEN ToColumnLabelLoop((idx \div 26) - 1, <<ALPHABET[(idx % 26) + 1]>> \o label)
  ELSE label

toColumnLabel(index) == ToColumnLabelLoop(index, <<>>)

\* the null that fromColumnLabel returns; every index it returns is >= 0
NO_INDEX == -1

\* the for loop of fromColumnLabel from position i on
RECURSIVE FromColumnLabelLoop(_, _, _)
FromColumnLabelLoop(normalized, i, result) ==
  IF i > Len(normalized) THEN result - 1
  ELSE LET code == CodeOf(normalized[i])
       IN IF code < 0 \/ code > 25 THEN NO_INDEX
          ELSE FromColumnLabelLoop(normalized, i + 1, result * 26 + (code + 1))

\* variant of fromColumnLabel that reads the letters as plain base-26 digits
fromColumnLabel_base26(label) ==
  IF label = <<>> THEN NO_INDEX
  ELSE LET n == FromColumnLabelLoop([i \in 1..Len(label) |-> toUpperCase(label[i])], 1, 0)
       IN IF n = NO_INDEX \/ Len(label) = 1 THEN n ELSE n - 26

fromColumnLabel(label) ==
  IF label = <<>> THEN NO_INDEX
  ELSE FromColumnLabelLoop([i \in 1..Len(label) |-> toUpperCase(label[i])], 1, 0)

----------------------------------------------------------------------------
(* SpecCodec: the two conversions applied to indices and to labels, and     *)
(* each applied to the result of the other.                                 *)

MaxIndex == 710      \* largest column index converted
MaxLabelLen == 2     \* longest label converted

LabelChars == SeqToSet(ALPHABET) \cup SeqToSet(LOWER_CASE) \cup OTHER_CHARS
LabelInputs == UNION {[1..len -> LabelChars] : len \in 0..MaxLabelLen}

IsUpperCaseLabel(label) ==
  label # <<>> /\ \A i \in 1..Len(label) : label[i] \in SeqToSet(ALPHABET)

InitCodec ==
  /\ snapshot = NullSnapshot
  /\ selectedBookId = Null
  /\ selectedSheetId = Null
  /\ history = <<>>
  /\ future = <<>>
  /\ clock = 1
  /\ uid = 1
  /\ lastCall = NoCall
  /\ integ = NoInteg
  /\ app = NoApp
  /\ \/ \E index \in 0..MaxIndex : grid = [mounted |-> FALSE, given |-> "index", index |-> index]
     \/ \E label \in LabelInputs : grid = [mounted |-> FALSE, given |-> "label", label |-> label]

\* toColumnLabel(index), on a given index or on the index fromColumnLabel returned
ToColumnLabel ==
  /\ \/ grid.given = "index" /\ "label" \notin DOMAIN grid
        /\ grid' = [mounted |-> FALSE, given |-> "index", index |-> grid.index,
                    label |-> toColumnLabel(grid.index)]
     \/ grid.given = "label" /\ "index" \in DOMAIN grid /\ "back" \notin DOMAIN grid
        /\ grid.index # NO_INDEX
        /\ grid' = [mounted |-> FALSE, given |-> "label", label |-> grid.label,
                    index |-> grid.index, back |-> toColumnLabel(grid.index)]
  /\ UNCHANGED <<storeVars, clock, uid, lastCall, integ, app>>

\* fromColumnLabel(label), on a given label or on the label toColumnLabel returned
FromColumnLabel ==
  /\ \/ grid.given = "label" /\ "index" \notin DOMAIN grid
        /\ grid' = [mounted |-> FALSE, given |-> "label", label |-> grid.label,
                    index |-> fromColumnLabel(grid.label)]
     \/ grid.given = "index" /\ "label" \in DOMAIN grid /\ "back" \notin DOMAIN grid
        /\ grid' = [mounted |-> FALSE, given |-> "index", index |-> grid.index,
                    label |-> grid.label, back |-> fromColumnLabel(grid.label)]
  /\ UNCHANGED <<storeVars, clock, uid, lastCall, integ, app>>

NextCodec == ToColumnLabel \/ FromColumnLabel

SpecCodec == InitCodec /\ [][NextCodec]_vars

\* C25: the column-label codec is a bijection between the indices 0, 1, 2, ...
\* and the non-empty labels over A..Z (0 is A, 25 is Z, 26 is AA):
\* fromColumnLabel(toColumnLabel(i)) = i for every index i >= 0, and
\* toColumnLabel(fromColumnLabel(l)) = l for every non-empty upper-case label l.
C25_ColumnLabelRoundTrips ==
  /\ (grid.given = "index" /\ "label" \in DOMAIN grid) =>
       /\ IsUpperCaseLabel(grid.label)
       /\ grid.index = 0 => grid.label = <<"A">>
       /\ grid.index = 25 => grid.label = <<"Z">>
       /\ grid.index = 26 => grid.label = <<"A", "A">>
  /\ (grid.given = "index" /\ "back" \in DOMAIN grid) => grid.back = grid.index
  /\ (grid.given = "label" /\ "index" \in DOMAIN grid /\ IsUpperCaseLabel(grid.label)) =>
       grid.index # NO_INDEX /\ grid.index >= 0
  /\ (grid.given = "label" /\ "back" \in DOMAIN grid /\ IsUpperCaseLabel(grid.label)) =>
       grid.back = grid.label

\* index 702 went to the three-letter label AAA and came back as 702
C25_Witness ==
  /\ grid.given = "index"
  /\ "back" \in DOMAIN grid
  /\ grid.index = 702
  /\ grid.label = <<"A", "A", "A">>
  /\ grid.back = 702

----------------------------------------------------------------------------
(* components/SheetGrid.tsx: what the grid renders for the sheet it is      *)
(* given.  A sheet of the grid is [gridSize, rows]; a row key is the        *)
(* decimal string of the row number, a column key is a label.               *)

ROW_CAP == 30
COL_CAP == 26

MaxBeyondCap == 1      \* how far gridSize and stored cells go beyond the caps
MaxStoredCells == 2    \* stored cells of a sheet given to the grid

Max2(a, b) == IF a > b THEN a ELSE b

\* Number.parseInt(key, 10) of a row key: the row number whose decimal string
\* the key is; NOT_A_NUMBER for a key that is no decimal string
ParseInt(key) ==
  LET range == 0..(ROW_CAP + MaxBeyondCap + 1)
  IN IF \E n \in range : ToString(n) = key
     THEN CHOOSE n \in range : ToString(n) = key
     ELSE NOT_A_NUMBER

\* Array.from(set).sort((a, b) => a - b)
RECURSIVE SortedFrom(_)
SortedFrom(numbers) ==
  IF numbers = {} THEN <<>>
  ELSE LET least == CHOOSE n \in numbers : \A m \in numbers : n <= m
       IN <<least>> \o SortedFrom(numbers \ {least})

\* const count = Math.min(sheet.gridSize.cols, 26)
columnLabels(sheet) ==
  LET count == Min2(sheet.gridSize.cols, COL_CAP)
  IN [idx \in 1..count |-> toColumnLabel(idx - 1)]

rowNumbers(sheet) ==
  LET baseCount == Min2(sheet.gridSize.rows, ROW_CAP)
      baseRows == 1..baseCount
      sparseRows == {ParseInt(key) : key \in DOMAIN sheet.rows} \ {NOT_A_NUMBER}
  IN SortedFrom(baseRows \cup sparseRows)

\* the cells the table body shows: rowNumbers.map over columnLabels.map
RenderedCells(sheet) ==
  LET rendered == rowNumbers(sheet)
      labels == columnLabels(sheet)
  IN {<<ToString(rendered[i]), labels[j]>> : i \in 1..Len(rendered), j \in 1..Len(labels)}

StoredCells(sheet) ==
  UNION {{<<rowKey, columnKey>> : columnKey \in DOMAIN sheet.rows[rowKey]} :
           rowKey \in DOMAIN sheet.rows}

----------------------------------------------------------------------------
(* SpecGrid: the grid is given a sheet, renders it, and is given another.   *)

GridSizes ==
  {[rows |-> r, cols |-> c] :
     r \in {0, 2, ROW_CAP, ROW_CAP + MaxBeyondCap, DEFAULT_ROWS},
     c \in {0, 1, COL_CAP, COL_CAP + MaxBeyondCap}}

CellPositions ==
  {<<ToString(r), toColumnLabel(c)>> :
     r \in {1, ROW_CAP + MaxBeyondCap + 1}, c \in {0, COL_CAP + MaxBeyondCap}}

RowsOf(positions) ==
  [rowKey \in {pos[1] : pos \in positions} |->
     [columnKey \in {pos[2] : pos \in {p \in positions : p[1] = rowKey}} |->
        [value |-> "x", type |-> "string"]]]

GridSheets ==
  {[gridSize |-> size, rows |-> RowsOf(positions)] :
     size \in GridSizes,
     positions \in {ps \in SUBSET CellPositions : Cardinality(ps) <= MaxStoredCells}}

InitGrid ==
  /\ snapshot = NullSnapshot
  /\ selectedBookId = Null
  /\ selectedSheetId = Null
  /\ history = <<>>
  /\ future = <<>>
  /\ clock = 1
  /\ uid = 1
  /\ lastCall = NoCall
  /\ integ = NoInteg
  /\ app = NoApp
  /\ \E sheet \in GridSheets : grid = [mounted |-> FALSE, sheet |-> sheet]

\* the useMemo bodies of columnLabels and rowNumbers run for the sheet prop
RenderGrid ==
  /\ ~grid.mounted
  /\ grid' = [mounted |-> TRUE, sheet |-> grid.sheet,
              columnLabels |-> columnLabels(grid.sheet),
              rowNumbers |-> rowNumbers(grid.sheet),
              cells |-> RenderedCells(grid.sheet)]
  /\ UNCHANGED <<storeVars, clock, uid, lastCall, integ, app>>

\* the sheet prop changes: a cell is stored in the sheet that is shown
StoreCell ==
  /\ grid.mounted
  /\ Cardinality(StoredCells(grid.sheet)) < MaxStoredCells
  /\ \E pos \in CellPositions \ StoredCells(grid.sheet) :
       grid' = [mounted |-> FALSE,
                sheet |-> [grid.sheet EXCEPT
                             !.rows = RowsOf(StoredCells(grid.sheet) \cup {pos})]]
  /\ UNCHANGED <<storeVars, clock, uid, lastCall, integ, app>>

NextGrid == RenderGrid \/ StoreCell

SpecGrid == InitGrid /\ [][NextGrid]_vars

LargestStoredColumn(sheet) ==
  LET indices == {fromColumnLabel(pos[2]) : pos \in StoredCells(sheet)} \ {NO_INDEX}
  IN IF indices = {} THEN -1 ELSE CHOOSE n \in indices : \A m \in indices : m <= n

\* C26: the rendered grid covers every stored cell: the number of rendered
\* columns is the larger of gridSize.cols and (largest stored column index
\* + 1), the rendered row numbers include 1..gridSize.rows and every stored
\* row number, and no stored cell lies outside the rendered rows and columns.
C26_GridCoversStoredCells ==
  grid.mounted =>
    /\ Len(grid.columnLabels) =
         Max2(grid.sheet.gridSize.cols, LargestStoredColumn(grid.sheet) + 1)
    /\ \A n \in 1..grid.sheet.gridSize.rows : n \in SeqToSet(grid.rowNumbers)
    /\ \A rowKey \in DOMAIN grid.sheet.rows : ParseInt(rowKey) \in SeqToSet(grid.rowNumbers)
    /\ StoredCells(grid.sheet) \subseteq grid.cells

----------------------------------------------------------------------------
(* App.tsx: saving.  app holds what the component reads from the store      *)
(* besides the snapshot (autoSaveEnabled, integrityIssues,                  *)
(* integrityDecisions), the autosave timer of the effect, and the file      *)
(* system as saveWorkspaceSnapshot left it.                                 *)

NO_TIMER == [pending |-> FALSE]
NOTHING_SAVED == [isNull |-> TRUE]

\* integrityIssues.some((issue) => !decision || decision === 'defer')
hasUnresolvedIntegrity(issues, decisions) ==
  \E k \in 1..Len(issues) :
    issues[k].id \notin DOMAIN decisions \/ decisions[issues[k].id] = "defer"

\* variant of the autosave effect that leaves a pending timer running
AutosaveEffect_keepsPending(a, snap) ==
  IF ~a.autoSaveEnabled \/ ~a.isTauri THEN NO_TIMER
  ELSE IF snap = NullSnapshot THEN NO_TIMER
  ELSE IF hasUnresolvedIntegrity(a.integrityIssues, a.integrityDecisions) THEN NO_TIMER
  ELSE IF a.timer.pending THEN a.timer
  ELSE [pending |-> TRUE, armedFor |-> snap]

\* the autosave effect after a render with application state a and snapshot
\* snap: the cleanup clears the timer of the previous run, then a new timer
\* is set unless one of the early returns is taken
AutosaveEffect(a, snap) ==
  IF ~a.autoSaveEnabled \/ ~a.isTauri THEN NO_TIMER
  ELSE IF snap = NullSnapshot THEN NO_TIMER
  ELSE IF hasUnresolvedIntegrity(a.integrityIssues, a.integrityDecisions) THEN NO_TIMER
  ELSE [pending |-> TRUE, armedFor |-> snap]

\* the render that follows a change of the store or of the component state
Rendered(a, snap) == [a EXCEPT !.timer = AutosaveEffect(a, snap)]

\* saveWorkspaceSnapshot(snap) has been called
Saved(a, snap) == [a EXCEPT !.disk = snap, !.saveCalls = (@ + 1) % 2]

\* if (isTauri && !autoSaveEnabled) await saveWorkspaceSnapshot(nextSnapshot)
SavedAtOnce(a, nextSnapshot) ==
  IF a.isTauri /\ ~a.autoSaveEnabled THEN Saved(a, nextSnapshot) ELSE a

\* handleSaveWorkspace, with the issues and decisions of its closure
handleSaveWorkspace(a, currentSnapshot) ==
  IF ~a.isTauri THEN a
  ELSE IF currentSnapshot = NullSnapshot THEN a
  ELSE IF hasUnresolvedIntegrity(a.integrityIssues, a.integrityDecisions) THEN a
  ELSE Saved(a, currentSnapshot)

----------------------------------------------------------------------------
(* SpecApp: a session of the application on an opened workspace.            *)

MaxAppOps == 2       \* effective mutations explored by SpecApp

\* the sample workspace with its book filed under a folder that does not exist
flawedSnapshot ==
  [sampleSnapshot EXCEPT !.workspace.data.books[1].folderId = "folder-gone"]

OpenedSnapshots == {sampleSnapshot, flawedSnapshot}

DecisionKeys == {"reset", "defer"}

InitApp ==
  /\ snapshot \in OpenedSnapshots
  /\ selectedBookId = deriveInitialSelection(snapshot).bookId
  /\ selectedSheetId = deriveInitialSelection(snapshot).sheetId
  /\ history = <<>>
  /\ future = <<>>
  /\ clock = 1
  /\ uid = 1
  /\ lastCall = NoCall
  /\ integ = NoInteg
  /\ grid = NoGrid
  /\ \E isTauri \in BOOLEAN, autoSaveEnabled \in BOOLEAN :
       app = Rendered([mounted |-> TRUE, isTauri |-> isTauri,
                       autoSaveEnabled |-> autoSaveEnabled,
                       integrityIssues |-> detectIntegrityIssues(snapshot),
                       integrityDecisions |-> EmptyMap,
                       timer |-> NO_TIMER, disk |-> NOTHING_SAVED, saveCalls |-> 0],
                      snapshot)

\* a handler that calls a mutating store operation and saves at once when
\* autosave is off; the render that follows runs the autosave effect
Handle(op, r, ticks, ids) ==
  /\ Install(op, r, ticks, ids)
  /\ app' = IF r.ret = "ok"
            THEN Rendered(SavedAtOnce(app, r.st.snapshot), r.st.snapshot)
            ELSE app
  /\ UNCHANGED <<integ, grid>>

HandleCreateBook ==
  clock <= MaxAppOps /\ Handle("createBook", createBook(Store, clock, uid), 1, 2)

HandleCreateSheet ==
  /\ clock <= MaxAppOps
  /\ selectedBookId # Null
  /\ Handle("createSheet", createSheet(Store, selectedBookId, clock, uid), 1, 1)

HandleApplyCellUpdates ==
  /\ clock <= MaxAppOps
  /\ Handle("applyCellUpdates",
            applyCellUpdates(Store, <<[rowKey |-> "1", columnKey |-> "A", value |-> "5"]>>, clock),
            1, 0)

FinishRename ==
  /\ clock <= MaxAppOps
  /\ selectedBookId # Null
  /\ Handle("renameBook", renameBook(Store, selectedBookId, "Renamed", clock), 1, 0)

\* handleUndo / handleRedo: the store call alone, then the render
HandleUndo ==
  /\ Install("undo", undo(Store), 0, 0)
  /\ app' = IF undo(Store).ret = "ok" THEN Rendered(app, undo(Store).st.snapshot) ELSE app
  /\ UNCHANGED <<integ, grid>>

HandleRedo ==
  /\ Install("redo", redo(Store), 0, 0)
  /\ app' = IF redo(Store).ret = "ok" THEN Rendered(app, redo(Store).st.snapshot) ELSE app
  /\ UNCHANGED <<integ, grid>>

SetAutoSaveEnabled ==
  /\ \E checked \in BOOLEAN :
       /\ checked # app.autoSaveEnabled
       /\ app' = Rendered([app EXCEPT !.autoSaveEnabled = checked], snapshot)
  /\ lastCall' = [op |-> "setAutoSaveEnabled", ret |-> "ok"]
  /\ UNCHANGED <<storeVars, clock, uid, integ, grid>>

SetIntegrityDecision ==
  /\ \E k \in 1..Len(app.integrityIssues), decision \in DecisionKeys :
       LET issueId == app.integrityIssues[k].id
       IN /\ (IF issueId \in DOMAIN app.integrityDecisions
              THEN app.integrityDecisions[issueId] # decision ELSE TRUE)
          /\ app' = Rendered([app EXCEPT !.integrityDecisions = MapSet(@, issueId, decision)],
                             snapshot)
  /\ lastCall' = [op |-> "setIntegrityDecision", ret |-> "ok"]
  /\ UNCHANGED <<storeVars, clock, uid, integ, grid>>

\* the save button
HandleSaveWorkspace ==
  /\ app' = handleSaveWorkspace(app, snapshot)
  /\ lastCall' = [op |-> "handleSaveWorkspace",
                  ret |-> IF app' = app THEN "null" ELSE "ok"]
  /\ UNCHANGED <<storeVars, clock, uid, integ, grid>>

\* the 800 ms timer of the autosave effect runs handleSaveWorkspace, which
\* reads the snapshot from useWorkspaceStore.getState()
TimerFires ==
  /\ app.timer.pending
  /\ app' = handleSaveWorkspace([app EXCEPT !.timer = NO_TIMER], snapshot)
  /\ lastCall' = [op |-> "autosave", ret |-> "ok"]
  /\ UNCHANGED <<storeVars, clock, uid, integ, grid>>

NextApp ==
  \/ HandleCreateBook
  \/ HandleCreateSheet
  \/ HandleApplyCellUpdates
  \/ FinishRename
  \/ HandleUndo
  \/ HandleRedo
  \/ SetAutoSaveEnabled
  \/ SetIntegrityDecision
  \/ HandleSaveWorkspace
  \/ TimerFires

SpecApp == InitApp /\ [][NextApp]_vars

\* a timer that was set fires after its delay
SpecAppLive == SpecApp /\ WF_vars(TimerFires)

SaveIssued == app'.saveCalls # app.saveCalls

\* C27: while a detected integrity issue is unresolved (no decision, or the
\* decision is defer) no saveWorkspaceSnapshot call is issued: not by the
\* save button, not by the autosave timer, and not by the save made at once
\* after createBook, createSheet, a cell edit or a rename when autosave is off.
C27_NoSaveWhileUnresolved ==
  [][SaveIssued => ~hasUnresolvedIntegrity(app.integrityIssues, app.integrityDecisions)]_vars

\* autosave runs: under Tauri, enabled, and no integrity issue is unresolved
AutosaveOn ==
  /\ app.isTauri
  /\ app.autoSaveEnabled
  /\ ~hasUnresolvedIntegrity(app.integrityIssues, app.integrityDecisions)

\* the snapshot has been saved by the timer and no timer is left
SavedByTimer == ~app.timer.pending /\ app.disk = snapshot

C29_LoadAndResetClearStacks ==
  \A r \in {loadWorkspace(Store, snap) : snap \in LoadableSnapshots} \cup {resetWorkspace(Store)} :
    /\ r.st.history = <<>>
    /\ r.st.future = <<>>
    /\ undo(r.st) = Returned(r.st, "null")
    /\ redo(r.st) = Returned(r.st, "null")

\* a workspace was loaded after a mutation of the one open before
C29_Witness ==
  /\ lastCall = [op |-> "loadWorkspace", ret |-> "ok"]
  /\ clock = 2
  /\ snapshot = windowsSnapshot
  /\ history = <<>>
  /\ future = <<>>

\* C30: in every reachable store state history.length + future.length is at
\* most 100: undo and redo move one entry from one stack to the other, and
\* only an effective mutation, which empties future, adds an entry, so redo
\* never takes history beyond the cap of 100 entries.
C30_StacksTogetherAreBounded ==
  /\ Len(history) + Len(future) <= MAX_HISTORY_ENTRIES
  /\ LET u == undo(Store)
         r == redo(Store)
     IN /\ u.ret = "ok" => /\ Len(u.st.history) = Len(history) - 1
                           /\ Len(u.st.future) = Len(future) + 1
        /\ r.ret = "ok" => /\ Len(r.st.history) = Len(history) + 1
                           /\ Len(r.st.future) = Len(future) - 1
  /\ \A m \in MutationResults(Store) :
       m.ret = "ok" => m.st.future = <<>> /\ Len(m.st.history) <= MAX_HISTORY_ENTRIES

\* redo has brought the history stack back to its cap of 100 entries
C30_Witness ==
  /\ lastCall = [op |-> "redo", ret |-> "ok"]
  /\ Len(history) = MAX_HISTORY_ENTRIES
  /\ future = <<>>

(***************************************************************************)
(* No-op calls and the redo stack.                                         *)
(***************************************************************************)

\* The calls that leave the workspace as it is: applyCellUpdates with an
\* empty batch, without a target sheet or with a batch after which the rows
\* equal the current rows, and renameBook with a name that trims to the
\* empty string or to the current name of the book.
NoOpCalls(st) ==
  {applyCellUpdates(st, updates, clock) :
     updates \in {u \in Batches :
                    \/ u = <<>>
                    \/ ~HasTargetSheet(st)
                    \/ RowsAfterBatch(st, u) = SheetRows(st)}}
  \cup
  (IF st.snapshot = NullSnapshot THEN {}
   ELSE UNION {{renameBook(st, st.snapshot.books[i].data.book.id, nextName, clock) :
                  nextName \in {n \in NameInputs \cup {" ", st.snapshot.books[i].data.book.name} :
                                  Trim(n) \in {"", st.snapshot.books[i].data.book.name}}} :
               i \in 1..Len(st.snapshot.books)})

\* C31: a call that turns out to be a no-op leaves the future stack as it
\* is, so that after an undo and such a call redo() still restores the
\* undone snapshot together with its selection.
C31_NoOpKeepsFuture ==
  \A r \in NoOpCalls(Store) :
    /\ r.st.future = future
    /\ Len(future) > 0 =>
         /\ redo(r.st).ret = "ok"
         /\ redo(r.st).st.snapshot = future[Len(future)].snapshot
         /\ redo(r.st).st.selectedBookId = future[Len(future)].selectedBookId
         /\ redo(r.st).st.selectedSheetId = future[Len(future)].selectedSheetId

----------------------------------------------------------------------------
(* SpecRefs: the store after loadWorkspace of an issue-free snapshot, with  *)
(* selections of any book and sheet id, the four mutations, undo and redo.  *)

MaxRefOps == 1

SheetIdsOf(snap) ==
  IF snap = NullSnapshot THEN {}
  ELSE UNION {{snap.books[i].data.sheets[j].id : j \in 1..Len(snap.books[i].data.sheets)} :
              i \in 1..Len(snap.books)}

\* the snapshots to load: the sample one, and the one with Windows paths as
\* saved after one createBook call (ids of generation 1 and 2 are then taken)
SavedAfterCreateBook(snap) ==
  LET empty == [snapshot |-> NullSnapshot, selectedBookId |-> Null, selectedSheetId |-> Null,
                history |-> <<>>, future |-> <<>>]
  IN createBook(loadWorkspace(empty, snap).st, 0, 1).st.snapshot

InitRefs ==
  /\ \E grown \in BOOLEAN :
       LET loaded == IF grown THEN SavedAfterCreateBook(windowsSnapshot) ELSE sampleSnapshot
       IN /\ snapshot = loaded
          /\ selectedBookId = deriveInitialSelection(loaded).bookId
          /\ selectedSheetId = deriveInitialSelection(loaded).sheetId
          /\ uid = IF grown THEN 3 ELSE 1
  /\ history = <<>>
  /\ future = <<>>
  /\ clock = 1
  /\ lastCall = [op |-> "loadWorkspace", ret |-> "ok"]
  /\ integ = NoInteg
  /\ grid = NoGrid
  /\ app = NoApp

SelectAnySheet ==
  \E bookId \in BookIdsOf(snapshot), sheetId \in SheetIdsOf(snapshot) :
    Call("selectSheet", selectSheet(Store, bookId, sheetId), 0, 0)

RenameSelected ==
  selectedBookId # Null /\ Call("renameBook", renameBook(Store, selectedBookId, "Renamed", clock), 1, 0)

NextRefs ==
  \/ SelectBook
  \/ SelectAnySheet
  \/ (clock <= MaxRefOps /\ CreateBook)
  \/ (clock <= MaxRefOps /\ CreateSheet)
  \/ (clock <= MaxRefOps /\ CommitCell)
  \/ (clock <= MaxRefOps /\ RenameSelected)
  \/ Undo
  \/ Redo

SpecRefs == InitRefs /\ [][NextRefs]_vars

\* every reference has a document of its id, and a declared activeSheetId is
\* the id of a sheet of that document
ReferencesAgree(snap) ==
  \A i \in 1..Len(snap.workspace.data.books) :
    LET ref == snap.workspace.data.books[i]
        b == BookIndexById(snap.books, ref.id)
    IN /\ b # 0
       /\ ref.activeSheetId # Null => SheetIndexById(snap.books[b].data.sheets, ref.activeSheetId) # 0

\* C32: from a loaded snapshot without integrity issue, no sequence of
\* createBook, createSheet, applyCellUpdates, renameBook, selectBook,
\* selectSheet, undo and redo leads to a snapshot on which
\* detectIntegrityIssues reports a book-id-mismatch, a missing-active-sheet
\* or a missing-folder-reference issue: the references keep the ids of their
\* documents and every declared activeSheetId is a sheet of its document.
C32_StoreKeepsReferencesSound ==
  /\ detectIntegrityIssues(sampleSnapshot) = <<>>
  /\ detectIntegrityIssues(SavedAfterCreateBook(windowsSnapshot)) = <<>>
  /\ snapshot # NullSnapshot
  /\ LET issues == detectIntegrityIssues(snapshot)
     IN /\ IssuesOfType(issues, "book-id-mismatch") = <<>>
        /\ IssuesOfType(issues, "missing-active-sheet") = <<>>
        /\ IssuesOfType(issues, "missing-folder-reference") = <<>>
  /\ ReferencesAgree(snapshot)

\* a sheet added to one of two books while the selection named a sheet the
\* selected book does not have
C32_Witness ==
  /\ lastCall = [op |-> "createSheet", ret |-> "ok"]
  /\ Len(snapshot.books) >= 2
  /\ Len(history) = 1
  /\ LET h == history[1]
         b == BookIndexById(h.snapshot.books, h.selectedBookId)
     IN /\ b # 0
        /\ h.selectedBookId # selectedBookId
        /\ SheetIndexById(h.snapshot.books[b].data.sheets, h.selectedSheetId) = 0

\* C33: when every detected issue is given one of its supported decisions
\* other than defer and applyIntegrityRepairs is run once with them,
\* detectIntegrityIssues reports no issue on the repaired snapshot; a
\* reference whose dangling folderId was reset joins the root group without
\* sharing its (folderId, order) pair with another reference.
C33_FullRepairLeavesNoIssue ==
  (/\ integ.stage = "rechecked"
   /\ \A id \in DOMAIN integ.decisions : integ.decisions[id] # "defer")
  => integ.issues = <<>>

\* the reference at position i of the repaired snapshot has an issue that
\* was decided other than defer
HasAppliedDecision(i) ==
  \E k \in 1..Len(integ.issues) :
    /\ integ.issues[k].details.workspaceBookIndex = i
    /\ integ.issues[k].id \in DOMAIN integ.decisions
    /\ integ.decisions[integ.issues[k].id] # "defer"

\* C34: applyIntegrityRepairs leaves every field of a workspace reference as
\* it was when all issues of that reference are deferred or undecided, or
\* when it has no issue, whatever is decided for the other references; and
\* with nothing but defer decisions it returns the input snapshot with empty
\* resolvedIssueIds, bookIdReplacements and sheetSelectionUpdates.
C34_UndecidedReferencesAreUntouched ==
  integ.stage = "repaired" =>
    /\ Len(integ.result.snapshot.workspace.data.books) = Len(snapshot.workspace.data.books)
    /\ \A i \in 1..Len(snapshot.workspace.data.books) :
         ~HasAppliedDecision(i) =>
           integ.result.snapshot.workspace.data.books[i] = snapshot.workspace.data.books[i]
    /\ (\A id \in DOMAIN integ.decisions : integ.decisions[id] = "defer") =>
         /\ integ.result.snapshot = snapshot
         /\ integ.result.resolvedIssueIds = <<>>
         /\ integ.result.bookIdReplacements = EmptyMap
         /\ integ.result.sheetSelectionUpdates = EmptyMap

----------------------------------------------------------------------------
(* SpecIds: detection and repair over references and documents whose ids    *)
(* are arbitrary strings, ids with a colon among them.                      *)

MaxIdRefs == 2

ID_STRINGS == {"book-001", "a", "a:b"}
FILE_IDS == {"book-001", "b:c", "c"}

IdDocumentLists ==
  {<<[sampleDocument EXCEPT !.data.book.id = first],
     [otherDocument EXCEPT !.data.book.id = second]>> :
   first \in FILE_IDS, second \in FILE_IDS \ {"book-001"}}

IdReferenceLists ==
  LET choices == [id : ID_STRINGS, dataPath : {DataPathOf("book-001"), DataPathOf("book-002")},
                  activeSheetId : {Null, "missing-sheet"}]
  IN {[i \in 1..Len(q) |->
         BookReferenceOf(q[i].id, q[i].dataPath, q[i].activeSheetId, Null, i - 1)] :
      q \in {p \in SeqsUpTo(choices, MaxIdRefs) : p # <<>> /\ DistinctIds(p)}}

InitIds ==
  /\ \E refs \in IdReferenceLists, documents \in IdDocumentLists :
       LET loaded == loadWorkspace([snapshot |-> NullSnapshot, selectedBookId |-> Null,
                                    selectedSheetId |-> Null, history |-> <<>>,
                                    future |-> <<>>], SnapshotOf(refs, documents)).st
       IN /\ snapshot = loaded.snapshot
          /\ selectedBookId = loaded.selectedBookId
          /\ selectedSheetId = loaded.selectedSheetId
  /\ history = <<>>
  /\ future = <<>>
  /\ clock = 1
  /\ uid = 1
  /\ lastCall = [op |-> "loadWorkspace", ret |-> "ok"]
  /\ integ = NoInteg
  /\ grid = NoGrid
  /\ app = NoApp

SpecIds == InitIds /\ [][NextRepair]_vars

\* C35: on a snapshot whose workspace references have pairwise distinct ids,
\* the issues of one detectIntegrityIssues call have pairwise distinct ids,
\* so that the decision map, keyed by issue id, holds one decision per issue.
C35_IssueIdsAreDistinct ==
  (integ.stage = "detected" /\ DistinctIds(snapshot.workspace.data.books)) =>
    /\ \A i, j \in 1..Len(integ.issues) : integ.issues[i].id = integ.issues[j].id => i = j
    /\ \A decisions \in DecisionMaps(integ.issues) :
         Cardinality(DOMAIN decisions) = Len(integ.issues)

----------------------------------------------------------------------------
(* SpecSelect: the store after loadWorkspace of an issue-free snapshot,     *)
(* where selectBook is given the id of a loaded book and selectSheet the    *)
(* id of a sheet of that book.                                              *)

MaxSelectOps == 1

\* a workspace whose first reference names a book file that is not loaded
unloadedBookSnapshot ==
  SnapshotOf(<<BookReferenceOf("book-002", DataPathOf("book-002"), Null, Null, 0),
               BookReferenceOf("book-001", DataPathOf("book-001"), "sheet-001", Null, 1)>>,
             <<sampleDocument>>)

IssueFreeSnapshots ==
  {sampleSnapshot, SavedAfterCreateBook(windowsSnapshot), unloadedBookSnapshot}

InitSelect ==
  /\ \E snap \in IssueFreeSnapshots :
       LET loaded == loadWorkspace([snapshot |-> NullSnapshot, selectedBookId |-> Null,
                                    selectedSheetId |-> Null, history |-> <<>>,
                                    future |-> <<>>], snap).st
       IN /\ snapshot = loaded.snapshot
          /\ selectedBookId = loaded.selectedBookId
          /\ selectedSheetId = loaded.selectedSheetId
  /\ history = <<>>
  /\ future = <<>>
  /\ clock = 1
  /\ uid = 3
  /\ lastCall = [op |-> "loadWorkspace", ret |-> "ok"]
  /\ integ = NoInteg
  /\ grid = NoGrid
  /\ app = NoApp

SelectLoadedBook ==
  \E bookId \in BookIdsOf(snapshot) : Call("selectBook", selectBook(Store, bookId), 0, 0)

SelectSheetOfBook ==
  \E bookId \in BookIdsOf(snapshot) :
    \E sheetId \in SheetIdInputs(bookId) \ {MISSING_SHEET} :
      Call("selectSheet", selectSheet(Store, bookId, sheetId), 0, 0)

NextSelect ==
  \/ SelectLoadedBook
  \/ SelectSheetOfBook
  \/ (clock <= MaxSelectOps /\ CreateBook)
  \/ (clock <= MaxSelectOps /\ CreateSheet)
  \/ (clock <= MaxSelectOps /\ CommitCell)
  \/ (clock <= MaxSelectOps /\ RenameSelected)
  \/ Undo
  \/ Redo

SpecSelect == InitSelect /\ [][NextSelect]_vars

\* the selection of the store st names nothing, or a document of the
\* snapshot and nothing or a sheet of that document
SelectionIsLoaded(st) ==
  LET b == IF st.snapshot = NullSnapshot THEN 0
           ELSE BookIndexById(st.snapshot.books, st.selectedBookId)
  IN /\ st.selectedBookId = Null \/ b # 0
     /\ \/ st.selectedSheetId = Null
        \/ /\ b # 0
           /\ SheetIndexById(st.snapshot.books[b].data.sheets, st.selectedSheetId) # 0

\* C36: when selectBook and selectSheet are only given the id of a loaded
\* book and of a sheet of that book, in every store state reachable after
\* loadWorkspace of an issue-free snapshot the selected book id is null or
\* the id of a document of the current snapshot, and the selected sheet id
\* is null or the id of a sheet of that document; this holds too for the
\* selection that undo and redo restore.
C36_SelectionNamesLoadedIds ==
  (\A snap \in IssueFreeSnapshots : detectIntegrityIssues(snap) = <<>>) =>
    /\ SelectionIsLoaded(Store)
    /\ SelectionIsLoaded(undo(Store).st)
    /\ SelectionIsLoaded(redo(Store).st)

----------------------------------------------------------------------------
(* SpecBusy: the application with its asynchronous calls in flight.  A      *)
(* handler runs up to its await in one step and its continuation (the       *)
(* finally block) in a later step, when the call settles; setBusyState      *)
(* stores the value it is given.                                            *)

MaxInFlight == 2     \* calls of the application that may be in flight together
MaxBusyOps == 2      \* effective cell commits explored by SpecBusy

InFlight(a) == a.loads + a.saves

\* setBusyState('saving'); await saveWorkspaceSnapshot(...)
SaveStarts(a) == [a EXCEPT !.busyState = "saving", !.saves = @ + 1]

InitBusy ==
  /\ \E isTauri \in BOOLEAN, autoSaveEnabled \in BOOLEAN :
       /\ snapshot = IF isTauri THEN NullSnapshot ELSE sampleSnapshot
       /\ selectedBookId = IF isTauri THEN Null ELSE deriveInitialSelection(sampleSnapshot).bookId
       /\ selectedSheetId = IF isTauri THEN Null ELSE deriveInitialSelection(sampleSnapshot).sheetId
       /\ app = Rendered([mounted |-> TRUE, isTauri |-> isTauri,
                          autoSaveEnabled |-> autoSaveEnabled,
                          integrityIssues |-> <<>>, integrityDecisions |-> EmptyMap,
                          timer |-> NO_TIMER, busyState |-> "idle", loads |-> 0, saves |-> 0],
                         IF isTauri THEN NullSnapshot ELSE sampleSnapshot)
  /\ history = <<>>
  /\ future = <<>>
  /\ clock = 1
  /\ uid = 1
  /\ lastCall = NoCall
  /\ integ = NoInteg
  /\ grid = NoGrid

\* handleOpenWorkspace up to its await; the button is disabled while loading
OpenStarts ==
  /\ app.isTauri
  /\ app.busyState # "loading"
  /\ InFlight(app) < MaxInFlight
  /\ app' = [app EXCEPT !.busyState = "loading", !.loads = @ + 1]
  /\ lastCall' = [op |-> "handleOpenWorkspace", ret |-> "pending"]
  /\ UNCHANGED <<storeVars, clock, uid, integ, grid>>

\* openWorkspaceFromDialog settles with a snapshot or with nothing (the
\* dialog was cancelled or the read failed); finally setBusyState('idle')
OpenSettles ==
  /\ app.loads > 0
  /\ \E loaded \in {NullSnapshot, sampleSnapshot} :
       LET r == IF loaded = NullSnapshot THEN Returned(Store, "null")
                ELSE loadWorkspace(Store, loaded)
           settled == [app EXCEPT !.busyState = "idle", !.loads = @ - 1]
       IN /\ Install("loadWorkspace", r, 0, 0)
          /\ app' = IF r.ret = "ok" THEN Rendered(settled, r.st.snapshot) ELSE settled
  /\ UNCHANGED <<integ, grid>>

\* the save button, disabled without a snapshot and while saving, runs
\* handleSaveWorkspace up to its await
SaveClicked ==
  /\ snapshot # NullSnapshot
  /\ app.busyState # "saving"
  /\ app.isTauri
  /\ ~hasUnresolvedIntegrity(app.integrityIssues, app.integrityDecisions)
  /\ InFlight(app) < MaxInFlight
  /\ app' = SaveStarts(app)
  /\ lastCall' = [op |-> "handleSaveWorkspace", ret |-> "pending"]
  /\ UNCHANGED <<storeVars, clock, uid, integ, grid>>

\* the timer of the autosave effect runs handleSaveWorkspace up to its await
AutosaveStarts ==
  /\ app.timer.pending
  /\ InFlight(app) < MaxInFlight
  /\ app' = IF app.isTauri /\ snapshot # NullSnapshot
               /\ ~hasUnresolvedIntegrity(app.integrityIssues, app.integrityDecisions)
            THEN SaveStarts([app EXCEPT !.timer = NO_TIMER])
            ELSE [app EXCEPT !.timer = NO_TIMER]
  /\ lastCall' = [op |-> "autosave", ret |-> "pending"]
  /\ UNCHANGED <<storeVars, clock, uid, integ, grid>>

\* handleApplyCellUpdates up to its await: the store call, then the save at
\* once when autosave is off; the render runs the autosave effect
CellEdited ==
  /\ clock <= MaxBusyOps
  /\ InFlight(app) < MaxInFlight
  /\ \E v \in {"5", "x"} :
       LET r == applyCellUpdates(Store, <<[rowKey |-> "1", columnKey |-> "A", value |-> v]>>,
                                 clock)
       IN /\ Install("applyCellUpdates", r, 1, 0)
          /\ app' = IF r.ret # "ok" THEN app
                    ELSE IF app.isTauri /\ ~app.autoSaveEnabled
                    THEN Rendered(SaveStarts(app), r.st.snapshot)
                    ELSE Rendered(app, r.st.snapshot)
  /\ UNCHANGED <<integ, grid>>

\* saveWorkspaceSnapshot settles (written or failed); finally
\* setBusyState('idle')
SaveSettles ==
  /\ app.saves > 0
  /\ app' = [app EXCEPT !.busyState = "idle", !.saves = @ - 1]
  /\ lastCall' = [op |-> "saveWorkspaceSnapshot", ret |-> "ok"]
  /\ UNCHANGED <<storeVars, clock, uid, integ, grid>>

NextBusy ==
  \/ OpenStarts
  \/ OpenSettles
  \/ SaveClicked
  \/ AutosaveStarts
  \/ CellEdited
  \/ SaveSettles
  \/ SetAutoSaveEnabled

SpecBusy == InitBusy /\ [][NextBusy]_vars

\* C37: while a load or a saveWorkspaceSnapshot call started by the
\* application is in flight busyState is not 'idle'; it is 'idle' again only
\* when no such call remains in flight, also when a manual save, the
\* autosave timer and the save at once after an edit overlap.
C37_BusyWhileInFlight ==
  InFlight(app) > 0 => app.busyState # "idle"

====
